---- MODULE Spec2Model ----
(***************************************************************************)
(* Model of the gardener-node-agent OperatingSystemConfig reconciler       *)
(* (pkg/nodeagent/controller/operatingsystemconfig/reconciler.go).         *)
(*                                                                         *)
(* One reconciliation pass (Reconciler.Reconcile) is modelled statement by *)
(* statement: every filesystem call, every service-manager (D-Bus) call    *)
(* and every branch of the control flow is one action.  Every fallible     *)
(* call may fail, and what it did is appended to oplog, the log of the     *)
(* calls of the current pass.                                              *)
(***************************************************************************)
EXTENDS Naturals, Sequences, FiniteSets, TLC

(***************************************************************************)
(* Bounds of the model.                                                    *)
(***************************************************************************)
\* number of passes the scheduler starts in one behaviour
MaxPasses == 2

(***************************************************************************)
(* Go values.  A nil-able pointer is an option: <<>> is nil, <<v>> points  *)
(* to v.                                                                   *)
(***************************************************************************)
Nil == <<>>

Ptr(v) == <<v>>

\* pointer.BoolDeref / "if p != nil { x = *p }"
Deref(p, def) == IF p = Nil THEN def ELSE p[1]

RECURSIVE SeqToSet(_)
SeqToSet(s) == IF s = <<>> THEN {} ELSE {Head(s)} \cup SeqToSet(Tail(s))

(***************************************************************************)
(* Paths.                                                                  *)
(***************************************************************************)
pathJoin(a, b) == a \o "/" \o b

etcSystemdSystem == pathJoin(pathJoin(pathJoin("", "etc"), "systemd"), "system")

defaultFilePermissions == 384

\* 0644, the mode of the last-applied file and of one of the desired files
Perm0644 == 420

BaseDir == "/var/lib/gardener-node-agent"

lastAppliedOperatingSystemConfigFilePath == BaseDir \o "/last-applied-osc.yaml"

\* the directory FS.TempDir("", "gardener-node-agent-*") creates: a new one
\* for every call, here numbered by the pass that makes the call
TempDirName(n) == "/tmp/gardener-node-agent-" \o ToString(n)

TempDirs == {TempDirName(n) : n \in 1..MaxPasses}

FilePaths == {"/etc/a.conf", "/opt/b.conf"}

UnitNames == {"foo.service", "bar.service"}

DropInNames == {"10-x.conf", "20-y.conf"}

UnitFilePath(name) == pathJoin(etcSystemdSystem, name)

DropInDirectory(name) == UnitFilePath(name) \o ".d"

DropInFilePath(name, dropIn) == pathJoin(DropInDirectory(name), dropIn)

\* filepath.Dir and filepath.Base of the desired file paths
Dir(p) == CASE p = "/etc/a.conf" -> "/etc"
            [] p = "/opt/b.conf" -> "/opt"

Base(p) == CASE p = "/etc/a.conf" -> "a.conf"
             [] p = "/opt/b.conf" -> "b.conf"

TmpFilePath(dir, p) == pathJoin(dir, Base(p))

\* a path no configuration ever names
UnmanagedPath == "/etc/hostname"

FileDirs == {Dir(p) : p \in FilePaths}

TmpPaths == {TmpFilePath(d, p) : d \in TempDirs, p \in FilePaths}

UnitPaths == {UnitFilePath(u) : u \in UnitNames}

DropInDirs == {DropInDirectory(u) : u \in UnitNames}

DropInPaths == {DropInFilePath(u, d) : u \in UnitNames, d \in DropInNames}

AllPaths ==
    FilePaths \cup FileDirs \cup TmpPaths \cup TempDirs \cup UnitPaths
        \cup DropInDirs \cup DropInPaths
        \cup {lastAppliedOperatingSystemConfigFilePath, UnmanagedPath}

\* the paths below a directory (what RemoveAll removes with it)
Below(dir) ==
    CASE dir \in TempDirs -> {TmpFilePath(dir, p) : p \in FilePaths}
      [] dir \in DropInDirs ->
            {DropInFilePath(u, d) : u \in {n \in UnitNames : DropInDirectory(n) = dir},
                                    d \in DropInNames}
      [] OTHER -> {}

(***************************************************************************)
(* The filesystem (afero.Afero): a map from path to entry.                 *)
(***************************************************************************)
Absent == [kind |-> "none", data |-> "", perm |-> 0]

FileEntry(data, perm) == [kind |-> "file", data |-> data, perm |-> perm]

DirEntry == [kind |-> "dir", data |-> "", perm |-> 0]

Exists(f, p) == f[p].kind # "none"

\* FS.ReadFile: the bytes, or afero.ErrFileNotFound
ReadFile(f, p) ==
    IF f[p].kind = "file" THEN [res |-> "ok", data |-> f[p].data]
                          ELSE [res |-> "notfound", data |-> ""]

\* FS.WriteFile: creates or truncates; the mode only applies to a new file
WriteFile(f, p, data, perm) ==
    [f EXCEPT ![p] = FileEntry(data, IF f[p].kind = "file" THEN f[p].perm ELSE perm)]

\* FS.Chmod of an existing path
Chmod(f, p, perm) == [f EXCEPT ![p].perm = perm]

\* FS.MkdirAll
MkdirAll(f, p) == [f EXCEPT ![p] = DirEntry]

\* FS.Rename: the source replaces the target
Rename(f, from, to) == [f EXCEPT ![to] = f[from], ![from] = Absent]

\* FS.Remove of an existing path
Remove(f, p) == [f EXCEPT ![p] = Absent]

\* FS.RemoveAll: the path and everything below it; nothing when absent
RemoveAll(f, p) == [q \in AllPaths |-> IF q = p \/ q \in Below(p) THEN Absent ELSE f[q]]

(***************************************************************************)
(* The desired configuration (extensionsv1alpha1.OperatingSystemConfig)    *)
(* as the secret carries it: raw bytes, declared checksum, files, units.   *)
(***************************************************************************)
CommandStart == "start"

CommandStop == "stop"

Inline(encoding, data) == Ptr([Encoding |-> encoding, Data |-> data])

File(path, inline, permissions) ==
    [Path |-> path, Inline |-> inline, Permissions |-> permissions]

DropIn(name, content) == [Name |-> name, Content |-> content]

Unit(name, content, enable, command, dropIns) ==
    [Name |-> name, Content |-> content, Enable |-> enable, Command |-> command,
     DropIns |-> dropIns]

\* a base64 encoded file with explicit permissions; foo.service with a drop-in
\* and default enablement; bar.service without content, disabled
OSCa ==
    [raw |-> "osc-a", checksum |-> "sha-a",
     Files |-> << File("/opt/b.conf", Inline("b64", "Yg=="), Ptr(Perm0644)) >>,
     Units |-> << Unit("foo.service", Ptr("a"), Nil, Nil, << DropIn("10-x.conf", "a") >>),
                  Unit("bar.service", Nil, Ptr(FALSE), Nil, << >>) >>]

\* another file, in plain text; foo.service with another drop-in and command
\* stop; no bar.service
OSCb ==
    [raw |-> "osc-b", checksum |-> "sha-b",
     Files |-> << File("/etc/a.conf", Inline("", "a"), Nil) >>,
     Units |-> << Unit("foo.service", Ptr("a"), Ptr(TRUE), Ptr(CommandStop),
                       << DropIn("20-y.conf", "b") >>) >>]

\* a file whose base64 payload is malformed, after a well-formed one
OSCc ==
    [raw |-> "osc-c", checksum |-> "sha-c",
     Files |-> << File("/etc/a.conf", Inline("", "a"), Nil),
                  File("/opt/b.conf", Inline("b64", "%%"), Nil) >>,
     Units |-> << >>]

\* /etc/a.conf without inline content, which is never written;
\* foo.service without drop-ins and with command start
OSCd ==
    [raw |-> "osc-d", checksum |-> "sha-d",
     Files |-> << File("/etc/a.conf", Nil, Nil) >>,
     Units |-> << Unit("foo.service", Ptr("b"), Ptr(TRUE), Ptr(CommandStart), << >>) >>]

\* nothing desired: every file and unit managed before is to be deleted
OSCe == [raw |-> "osc-e", checksum |-> "sha-e", Files |-> << >>, Units |-> << >>]

\* /opt/b.conf with another content and the default permissions;
\* foo.service without content (its unit file is not managed) and with a
\* drop-in; bar.service with an empty unit file
OSCf ==
    [raw |-> "osc-f", checksum |-> "sha-f",
     Files |-> << File("/opt/b.conf", Inline("b64", "YQ=="), Nil) >>,
     Units |-> << Unit("foo.service", Nil, Nil, Nil, << DropIn("20-y.conf", "b") >>),
                  Unit("bar.service", Ptr(""), Nil, Nil, << >>) >>]

OSCs == {OSCa, OSCb, OSCc, OSCd, OSCe, OSCf}

\* the configuration before anything was applied
NoOSC == [raw |-> "", checksum |-> "", Files |-> << >>, Units |-> << >>]

\* runtime.DecodeInto of the bytes of a last-applied file
DecodeOSC(raw) == IF \E o \in OSCs : o.raw = raw
                  THEN CHOOSE o \in OSCs : o.raw = raw
                  ELSE NoOSC

\* extensionsv1alpha1helper.Decode: "" is plain text, "b64" is base64
Decode(encoding, data) ==
    CASE encoding = "" -> [ok |-> TRUE, data |-> data]
      [] encoding = "b64" /\ data = "YQ==" -> [ok |-> TRUE, data |-> "a"]
      [] encoding = "b64" /\ data = "Yg==" -> [ok |-> TRUE, data |-> "b"]
      [] OTHER -> [ok |-> FALSE, data |-> ""]

\* "permissions := defaultFilePermissions; if file.Permissions != nil ..."
ResolvePermissions(file) == Deref(file.Permissions, defaultFilePermissions)

(***************************************************************************)
(* Change computation: the ChangeSet of a desired configuration against    *)
(* the last-applied configuration and the contents of the disk.            *)
(***************************************************************************)
NoChanges ==
    [files |-> [changed |-> << >>, deleted |-> << >>],
     units |-> [changed |-> << >>, deleted |-> << >>]]

Paths(files) == {files[k].Path : k \in DOMAIN files}

Names(xs) == {xs[k].Name : k \in DOMAIN xs}

\* a desired file is changed when the disk has no such file or another
\* content or mode; one without payload never is
fileChanged(f, file) ==
    /\ file.Inline # Nil
    /\ LET want == Decode(file.Inline[1].Encoding, file.Inline[1].Data).data
       IN  \/ f[file.Path].kind # "file"
           \/ f[file.Path].data # want
           \/ f[file.Path].perm # ResolvePermissions(file)

dropInChanged(f, unit, d) ==
    LET got == ReadFile(f, DropInFilePath(unit.Name, d.Name))
    IN  got.res # "ok" \/ got.data # d.Content

\* the drop-in sub-diff of a desired unit
computeDropIns(f, old, unit) ==
    LET before == IF \E k \in DOMAIN old.Units : old.Units[k].Name = unit.Name
                  THEN (CHOOSE o \in SeqToSet(old.Units) : o.Name = unit.Name).DropIns
                  ELSE << >>
        dropInIsChanged(d) == dropInChanged(f, unit, d)
        dropInIsDeleted(d) == d.Name \notin Names(unit.DropIns)
    IN  [changed |-> SelectSeq(unit.DropIns, dropInIsChanged),
         deleted |-> SelectSeq(before, dropInIsDeleted)]

\* a desired unit is changed when its content differs from the installed unit
\* file, a drop-in differs, or its enablement or command differs from the
\* last-applied configuration
unitChanged(f, old, unit) ==
    LET sub == computeDropIns(f, old, unit)
        got == ReadFile(f, UnitFilePath(unit.Name))
    IN  \/ unit.Content # Nil /\ (got.res # "ok" \/ got.data # unit.Content[1])
        \/ sub.changed # << >>
        \/ sub.deleted # << >>
        \/ ~ \E k \in DOMAIN old.Units :
                /\ old.Units[k].Name = unit.Name
                /\ old.Units[k].Enable = unit.Enable
                /\ old.Units[k].Command = unit.Command

\* changedUnit: the unit with its drop-in sub-diff
changedUnit(f, old, unit) ==
    [Name |-> unit.Name, Content |-> unit.Content, Enable |-> unit.Enable,
     Command |-> unit.Command, DropIns |-> unit.DropIns,
     dropIns |-> computeDropIns(f, old, unit)]

\* lastRes is the outcome of reading the last-applied file: "ok", "notfound"
\* or "err" (any other read error)
computeOperatingSystemConfigChanges(f, lastRes, newOSC) ==
    LET old == IF lastRes = "ok"
               THEN DecodeOSC(f[lastAppliedOperatingSystemConfigFilePath].data)
               ELSE NoOSC
        undecodable(file) ==
            file.Inline # Nil /\ ~ Decode(file.Inline[1].Encoding, file.Inline[1].Data).ok
        fileIsChanged(file) == fileChanged(f, file)
        fileIsDeleted(file) == file.Path \notin Paths(newOSC.Files)
        unitIsChanged(unit) == unitChanged(f, old, unit)
        unitIsDeleted(unit) == unit.Name \notin Names(newOSC.Units)
        changedUnits == SelectSeq(newOSC.Units, unitIsChanged)
    IN  IF lastRes = "err" \/ \E k \in DOMAIN newOSC.Files : undecodable(newOSC.Files[k])
        THEN [err |-> TRUE, changes |-> NoChanges]
        ELSE [err |-> FALSE,
              changes |->
                [files |-> [changed |-> SelectSeq(newOSC.Files, fileIsChanged),
                            deleted |-> SelectSeq(old.Files, fileIsDeleted)],
                 units |-> [changed |-> [k \in DOMAIN changedUnits |->
                                            changedUnit(f, old, changedUnits[k])],
                            deleted |-> SelectSeq(old.Units, unitIsDeleted)]]]

(***************************************************************************)
(* State.                                                                  *)
(***************************************************************************)
VARIABLES
    fs,          \* the node's filesystem: path -> entry
    nodeObj,     \* the Node object in the API server: exists, checksum annotation
    passes,      \* number of passes started
    prev,        \* the raw configuration the previous pass applied and returned nil
                 \* for, "" when it did not
    start,       \* the filesystem and the Node object when the current pass started
    pc,          \* the statement of Reconcile the current pass is at
    osc,         \* the configuration of the secret of the current pass
    node,        \* the pass's copy of the Node object (nil when not found)
    oscChanges,  \* the computed changes
    i,           \* index of the loop over files or units
    j,           \* index of the loop over drop-ins
    oldContent,  \* the bytes the last ReadFile returned
    tmpDir,      \* applyChangedFiles: the scratch directory
    phaseErr,    \* applyChangedFiles is returning an error (its defer still runs)
    tasks,       \* executeUnitCommands: state of the task of each changed unit
    result,      \* what Reconcile returned
    oplog        \* the calls of the current pass, in the order they were made

vars == << fs, nodeObj, passes, prev, start, pc, osc, node, oscChanges, i, j,
           oldContent, tmpDir, phaseErr, tasks, result, oplog >>

\* RequeueAfter: 5 * time.Second
RetryPeriod == 5

\* r.Config.SyncPeriod.Duration, in seconds
SyncPeriod == 3600

NoResult == [RequeueAfter |-> 0, err |-> FALSE, at |-> "running"]

NilNode == [nil |-> TRUE, checksum |-> ""]

Call(ph, op, tgt, res) == [ph |-> ph, op |-> op, tgt |-> tgt, res |-> res]

\* a call is made and logged
Logged(ph, op, tgt, res) == oplog' = Append(oplog, Call(ph, op, tgt, res))

\* "return reconcile.Result{RequeueAfter: after}, err"
Return(at, err, after) ==
    /\ pc' = "done"
    /\ result' = [RequeueAfter |-> after, err |-> err, at |-> at]

\* control stays inside Reconcile
Goto(label) == pc' = label /\ result' = result

Init ==
    /\ fs = [p \in AllPaths |->
                CASE p = "/etc" -> DirEntry
                  [] p = UnmanagedPath -> FileEntry("node-1", Perm0644)
                  [] OTHER -> Absent]
    /\ nodeObj = [exists |-> FALSE, checksum |-> ""]
    /\ passes = 0
    /\ prev = ""
    /\ start = [fs |-> fs, nodeObj |-> nodeObj]
    /\ pc = "idle"
    /\ osc = NoOSC
    /\ node = NilNode
    /\ oscChanges = NoChanges
    /\ i = 1
    /\ j = 1
    /\ oldContent = ""
    /\ tmpDir = ""
    /\ phaseErr = FALSE
    /\ tasks = << >>
    /\ result = NoResult
    /\ oplog = << >>

(***************************************************************************)
(* The environment: the kubelet registers the Node, the scheduler starts a *)
(* pass for whatever configuration the secret then holds.                  *)
(***************************************************************************)
NodeRegisters ==
    /\ pc \in {"idle", "done"}
    /\ ~ nodeObj.exists
    /\ nodeObj' = [exists |-> TRUE, checksum |-> ""]
    /\ UNCHANGED << fs, passes, prev, start, pc, osc, node, oscChanges, i, j, oldContent, tmpDir,
                    phaseErr, tasks, result, oplog >>

StartPass ==
    /\ pc \in {"idle", "done"}
    /\ passes < MaxPasses
    /\ passes' = passes + 1
    /\ prev' = IF pc = "done" /\ result.at \in {"nodeNil", "patched"} /\ ~ result.err
                THEN osc.raw
                ELSE ""
    /\ start' = [fs |-> fs, nodeObj |-> nodeObj]
    /\ pc' = "GetSecret"
    /\ osc' = NoOSC
    /\ node' = NilNode
    /\ oscChanges' = NoChanges
    /\ i' = 1
    /\ j' = 1
    /\ oldContent' = ""
    /\ tmpDir' = ""
    /\ phaseErr' = FALSE
    /\ tasks' = << >>
    /\ result' = NoResult
    /\ oplog' = << >>
    /\ UNCHANGED << fs, nodeObj >>

\* mutant: a secret that is gone is an error like any other
GetSecretGoneIsError ==
    /\ pc = "GetSecret"
    /\ \E res \in {"ok", "notfound", "err"} :
        /\ Logged(0, "Get", "secret", res)
        /\ CASE res = "ok" -> (\E o \in OSCs : osc' = o) /\ Goto("GetNode")
             [] OTHER -> osc' = osc /\ Return("getSecret", TRUE, 0)
    /\ UNCHANGED << fs, nodeObj, passes, prev, start, node, oscChanges, i, j, oldContent,
                    tmpDir, phaseErr, tasks >>

(***************************************************************************)
(* Reconcile, up to the apply phases.                                      *)
(***************************************************************************)
\* r.Client.Get of the secret, which holds any of the configurations
GetSecret ==
    /\ pc = "GetSecret"
    /\ \E res \in {"ok", "notfound", "err"} :
        /\ Logged(0, "Get", "secret", res)
        /\ CASE res = "ok" -> (\E o \in OSCs : osc' = o) /\ Goto("GetNode")
             [] res = "notfound" -> osc' = osc /\ Return("gone", FALSE, 0)
             [] res = "err" -> osc' = osc /\ Return("getSecret", TRUE, 0)
    /\ UNCHANGED << fs, nodeObj, passes, prev, start, node, oscChanges, i, j, oldContent,
                    tmpDir, phaseErr, tasks >>

\* r.Client.Get of the Node; not found leaves node nil
GetNode ==
    /\ pc = "GetNode"
    /\ \E res \in {IF nodeObj.exists THEN "ok" ELSE "notfound", "err"} :
        /\ Logged(0, "Get", "node", res)
        /\ CASE res = "ok" ->
                    /\ node' = [nil |-> FALSE, checksum |-> nodeObj.checksum]
                    /\ pc' = "ExtractOSC" /\ result' = result
             [] res = "notfound" ->
                    /\ node' = NilNode
                    /\ pc' = "ExtractOSC" /\ result' = result
             [] res = "err" -> node' = node /\ Return("getNode", TRUE, 0)
    /\ UNCHANGED << fs, nodeObj, passes, prev, start, osc, oscChanges, i, j, oldContent, tmpDir,
                    phaseErr, tasks >>

\* extractOSCFromSecret: fails on a secret without a decodable osc.yaml
ExtractOSC ==
    /\ pc = "ExtractOSC"
    /\ \E ok \in BOOLEAN :
        IF ok THEN pc' = "Compute" /\ result' = result
        ELSE Return("extract", TRUE, 0)
    /\ UNCHANGED << fs, nodeObj, passes, prev, start, osc, node, oscChanges, i, j, oldContent, tmpDir,
                    phaseErr, tasks, oplog >>

\* mutant: the error of the change computation is dropped
ComputeIgnoringError ==
    /\ pc = "Compute"
    /\ \E lastRes \in {ReadFile(fs, lastAppliedOperatingSystemConfigFilePath).res, "err"} :
        LET r == computeOperatingSystemConfigChanges(fs, lastRes, osc)
        IN  /\ Logged(0, "ReadFile", lastAppliedOperatingSystemConfigFilePath, lastRes)
            /\ oscChanges' = r.changes /\ pc' = "Gate" /\ result' = result
    /\ UNCHANGED << fs, nodeObj, passes, prev, start, osc, node, i, j, oldContent, tmpDir,
                    phaseErr, tasks >>

\* computeOperatingSystemConfigChanges
Compute ==
    /\ pc = "Compute"
    /\ \E lastRes \in {ReadFile(fs, lastAppliedOperatingSystemConfigFilePath).res, "err"} :
        LET r == computeOperatingSystemConfigChanges(fs, lastRes, osc)
        IN  /\ Logged(0, "ReadFile", lastAppliedOperatingSystemConfigFilePath, lastRes)
            /\ IF r.err
               THEN oscChanges' = oscChanges /\ Return("compute", TRUE, 0)
               ELSE oscChanges' = r.changes /\ pc' = "Gate" /\ result' = result
    /\ UNCHANGED << fs, nodeObj, passes, prev, start, osc, node, i, j, oldContent, tmpDir,
                    phaseErr, tasks >>

\* mutant: the unit commands are executed before the daemon is reloaded
applyPhasesCommandsBeforeReload ==
    << "TempDir", "UnitsLoop", "DeletedUnitsLoop", "Fork", "DaemonReload",
       "DeletedFilesLoop" >>

\* mutant: the unit commands run after the removal of the deleted files
applyPhasesCommandsLast ==
    << "TempDir", "UnitsLoop", "DeletedUnitsLoop", "DaemonReload", "DeletedFilesLoop",
       "Fork" >>

\* the apply phases in the order Reconcile calls them, each by its first
\* statement: applyChangedFiles, applyChangedUnits, removeDeletedUnits,
\* DBus.DaemonReload, executeUnitCommands, removeDeletedFiles
applyPhases ==
    << "TempDir", "UnitsLoop", "DeletedUnitsLoop", "DaemonReload", "Fork",
       "DeletedFilesLoop" >>

\* where Reconcile continues when the phase that starts at `first` returned nil
Continue(first) ==
    LET k == CHOOSE n \in DOMAIN applyPhases : applyPhases[n] = first
    IN  IF k < Len(applyPhases) THEN Goto(applyPhases[k + 1])
        ELSE Goto("WriteLastApplied")

\* mutant: up to date when the last-applied file holds the configuration
upToDateByLastApplied(n, o) ==
    /\ fs[lastAppliedOperatingSystemConfigFilePath].kind = "file"
    /\ fs[lastAppliedOperatingSystemConfigFilePath].data = o.raw

\* the checksum annotation of the Node against the checksum of the secret
upToDate(n, o) == ~ n.nil /\ n.checksum = o.checksum

\* mutant: the return after "nothing to be done" is missing
GateFallsThrough ==
    /\ pc = "Gate"
    /\ pc' = "TempDir"
    /\ UNCHANGED << fs, nodeObj, passes, prev, start, osc, node, oscChanges, i, j,
                    oldContent, tmpDir, phaseErr, tasks, result, oplog >>

Gate ==
    /\ pc = "Gate"
    /\ IF upToDate(node, osc)
       THEN Return("upToDate", FALSE, 0)
       ELSE Goto(applyPhases[1])
    /\ UNCHANGED << fs, nodeObj, passes, prev, start, osc, node, oscChanges, i, j, oldContent, tmpDir,
                    phaseErr, tasks, oplog >>

(***************************************************************************)
(* Phase 1: applyChangedFiles.                                             *)
(***************************************************************************)
file == oscChanges.files.changed[i]

\* r.FS.TempDir; the deferred RemoveAll is registered only when it succeeded
TempDir ==
    /\ pc = "TempDir"
    /\ \E res \in {"ok", "err"} :
        /\ Logged(1, "TempDir", TempDirName(passes), res)
        /\ IF res = "ok"
           THEN /\ fs' = MkdirAll(fs, TempDirName(passes))
                /\ tmpDir' = TempDirName(passes)
                /\ Goto("FilesLoop")
           ELSE fs' = fs /\ tmpDir' = tmpDir /\ Return("files", TRUE, 0)
    /\ i' = 1
    /\ UNCHANGED << nodeObj, passes, prev, start, osc, node, oscChanges, j, oldContent,
                    phaseErr, tasks >>

\* mutant: a file without inline content ends the loop
FilesLoopBreaks ==
    /\ pc = "FilesLoop"
    /\ IF i > Len(oscChanges.files.changed)
       THEN Goto("RemoveAllTmp") /\ i' = i
       ELSE IF file.Inline = Nil
            THEN Goto("RemoveAllTmp") /\ i' = i
            ELSE Goto("FileMkdirAll") /\ i' = i
    /\ UNCHANGED << fs, nodeObj, passes, prev, start, osc, node, oscChanges, j, oldContent, tmpDir,
                    phaseErr, tasks, oplog >>

\* "for _, file := range files" and "if file.Content.Inline == nil { continue }"
FilesLoop ==
    /\ pc = "FilesLoop"
    /\ IF i > Len(oscChanges.files.changed)
       THEN Goto("RemoveAllTmp") /\ i' = i
       ELSE IF file.Inline = Nil
            THEN Goto("FilesLoop") /\ i' = i + 1
            ELSE Goto("FileMkdirAll") /\ i' = i
    /\ UNCHANGED << fs, nodeObj, passes, prev, start, osc, node, oscChanges, j, oldContent, tmpDir,
                    phaseErr, tasks, oplog >>

\* r.FS.MkdirAll(filepath.Dir(file.Path))
FileMkdirAll ==
    /\ pc = "FileMkdirAll"
    /\ \E res \in {"ok", "err"} :
        /\ Logged(1, "MkdirAll", Dir(file.Path), res)
        /\ IF res = "ok"
           THEN fs' = MkdirAll(fs, Dir(file.Path)) /\ phaseErr' = FALSE
                /\ Goto("FileDecode")
           ELSE fs' = fs /\ phaseErr' = TRUE /\ Goto("RemoveAllTmp")
    /\ UNCHANGED << nodeObj, passes, prev, start, osc, node, oscChanges, i, j, oldContent, tmpDir, tasks >>

\* extensionsv1alpha1helper.Decode of the payload
FileDecode ==
    /\ pc = "FileDecode"
    /\ IF Decode(file.Inline[1].Encoding, file.Inline[1].Data).ok
       THEN Logged(1, "Decode", file.Path, "ok") /\ phaseErr' = FALSE
            /\ Goto("FileWriteTmp")
       ELSE Logged(1, "Decode", file.Path, "err") /\ phaseErr' = TRUE
            /\ Goto("RemoveAllTmp")
    /\ UNCHANGED << fs, nodeObj, passes, prev, start, osc, node, oscChanges, i, j,
                    oldContent, tmpDir, tasks >>

\* mutant: the payload is written as it is encoded
FileWriteTmpEncoded ==
    /\ pc = "FileWriteTmp"
    /\ \E res \in {"ok", "err"} :
        /\ Logged(1, "WriteFile", TmpFilePath(tmpDir, file.Path), res)
        /\ IF res = "ok"
           THEN /\ fs' = WriteFile(fs, TmpFilePath(tmpDir, file.Path),
                                   file.Inline[1].Data, ResolvePermissions(file))
                /\ phaseErr' = FALSE /\ Goto("FileRename")
           ELSE fs' = fs /\ phaseErr' = TRUE /\ Goto("RemoveAllTmp")
    /\ UNCHANGED << nodeObj, passes, prev, start, osc, node, oscChanges, i, j, oldContent, tmpDir, tasks >>

\* mutant: the content is written in place, at the final path
FileWriteInPlace ==
    /\ pc = "FileWriteTmp"
    /\ \E res \in {"ok", "err"} :
        /\ Logged(1, "WriteFile", file.Path, res)
        /\ IF res = "ok"
           THEN /\ fs' = WriteFile(fs, file.Path,
                                   Decode(file.Inline[1].Encoding, file.Inline[1].Data).data,
                                   ResolvePermissions(file))
                /\ phaseErr' = FALSE /\ i' = i + 1 /\ Goto("FilesLoop")
           ELSE fs' = fs /\ phaseErr' = TRUE /\ i' = i /\ Goto("RemoveAllTmp")
    /\ UNCHANGED << nodeObj, passes, prev, start, osc, node, oscChanges, j, oldContent, tmpDir, tasks >>

\* r.FS.WriteFile(tmpFilePath, data, permissions)
FileWriteTmp ==
    /\ pc = "FileWriteTmp"
    /\ \E res \in {"ok", "err"} :
        /\ Logged(1, "WriteFile", TmpFilePath(tmpDir, file.Path), res)
        /\ IF res = "ok"
           THEN /\ fs' = WriteFile(fs, TmpFilePath(tmpDir, file.Path),
                                   Decode(file.Inline[1].Encoding, file.Inline[1].Data).data,
                                   ResolvePermissions(file))
                /\ phaseErr' = FALSE /\ Goto("FileRename")
           ELSE fs' = fs /\ phaseErr' = TRUE /\ Goto("RemoveAllTmp")
    /\ UNCHANGED << nodeObj, passes, prev, start, osc, node, oscChanges, i, j, oldContent, tmpDir, tasks >>

\* r.FS.Rename(tmpFilePath, file.Path)
FileRename ==
    /\ pc = "FileRename"
    /\ \E res \in {"ok", "err"} :
        /\ Logged(1, "Rename", file.Path, res)
        /\ IF res = "ok"
           THEN /\ fs' = Rename(fs, TmpFilePath(tmpDir, file.Path), file.Path)
                /\ phaseErr' = FALSE /\ i' = i + 1 /\ Goto("FilesLoop")
           ELSE fs' = fs /\ phaseErr' = TRUE /\ i' = i /\ Goto("RemoveAllTmp")
    /\ UNCHANGED << nodeObj, passes, prev, start, osc, node, oscChanges, j, oldContent, tmpDir, tasks >>

\* mutant: the cleanup removes every scratch directory, those that earlier
\* passes left behind included
RemoveAllTmpOfEveryPass ==
    /\ pc = "RemoveAllTmp"
    /\ \E res \in {"ok", "err"} :
        /\ Logged(1, "RemoveAll", tmpDir, res)
        /\ fs' = IF res = "ok"
                 THEN [q \in AllPaths |-> IF q \in TempDirs \cup TmpPaths THEN Absent ELSE fs[q]]
                 ELSE fs
    /\ IF phaseErr THEN Return("files", TRUE, 0) ELSE Continue("TempDir")
    /\ i' = 1
    /\ UNCHANGED << nodeObj, passes, prev, start, osc, node, oscChanges, j, oldContent, tmpDir,
                    phaseErr, tasks >>

\* mutant: the scratch directory is only removed when no file failed
RemoveAllTmpOnSuccessOnly ==
    /\ pc = "RemoveAllTmp"
    /\ IF phaseErr
       THEN oplog' = oplog /\ fs' = fs /\ Return("files", TRUE, 0)
       ELSE /\ \E res \in {"ok", "err"} :
                /\ Logged(1, "RemoveAll", tmpDir, res)
                /\ fs' = IF res = "ok" THEN RemoveAll(fs, tmpDir) ELSE fs
            /\ Continue("TempDir")
    /\ i' = 1
    /\ UNCHANGED << nodeObj, passes, prev, start, osc, node, oscChanges, j, oldContent, tmpDir,
                    phaseErr, tasks >>

\* the deferred r.FS.RemoveAll(tmpDir); its error is only logged
RemoveAllTmp ==
    /\ pc = "RemoveAllTmp"
    /\ \E res \in {"ok", "err"} :
        /\ Logged(1, "RemoveAll", tmpDir, res)
        /\ fs' = IF res = "ok" THEN RemoveAll(fs, tmpDir) ELSE fs
    /\ IF phaseErr THEN Return("files", TRUE, 0) ELSE Continue("TempDir")
    /\ i' = 1
    /\ UNCHANGED << nodeObj, passes, prev, start, osc, node, oscChanges, j, oldContent, tmpDir,
                    phaseErr, tasks >>

(***************************************************************************)
(* Phase 2: applyChangedUnits.                                             *)
(***************************************************************************)
unit == oscChanges.units.changed[i]

unitFilePath == UnitFilePath(unit.Name)

dropInDirectory == DropInDirectory(unit.Name)

\* mutant: the permissions of the unit file are reset also when the unit has
\* no content
UnitsLoopChmodAlways ==
    /\ pc = "UnitsLoop"
    /\ IF i > Len(oscChanges.units.changed)
       THEN Continue("UnitsLoop") /\ i' = 1
       ELSE /\ i' = i
            /\ IF unit.Content # Nil THEN Goto("UnitReadFile") ELSE Goto("UnitChmod")
    /\ UNCHANGED << fs, nodeObj, passes, prev, start, osc, node, oscChanges, j, oldContent, tmpDir,
                    phaseErr, tasks, oplog >>

\* "for _, unit := range units" and "if unit.Content != nil"
UnitsLoop ==
    /\ pc = "UnitsLoop"
    /\ IF i > Len(oscChanges.units.changed)
       THEN Continue("UnitsLoop") /\ i' = 1
       ELSE /\ i' = i
            /\ IF unit.Content # Nil THEN Goto("UnitReadFile") ELSE Goto("UnitDropIns")
    /\ UNCHANGED << fs, nodeObj, passes, prev, start, osc, node, oscChanges, j, oldContent, tmpDir,
                    phaseErr, tasks, oplog >>

\* mutant: the unit file is written only when there is none yet
UnitReadFileWritesNewOnly ==
    /\ pc = "UnitReadFile"
    /\ \E res \in {ReadFile(fs, unitFilePath).res, "err"} :
        /\ Logged(2, "ReadFile", unitFilePath, res)
        /\ CASE res = "err" -> oldContent' = oldContent /\ Return("units", TRUE, 0)
             [] OTHER ->
                /\ oldContent' = ReadFile(fs, unitFilePath).data
                /\ IF res = "notfound"
                   THEN Goto("UnitWriteFile")
                   ELSE Goto("UnitChmod")
    /\ UNCHANGED << fs, nodeObj, passes, prev, start, osc, node, oscChanges, i, j,
                    tmpDir, phaseErr, tasks >>

\* r.FS.ReadFile(unitFilePath), not found tolerated; then bytes.Equal
UnitReadFile ==
    /\ pc = "UnitReadFile"
    /\ \E res \in {ReadFile(fs, unitFilePath).res, "err"} :
        /\ Logged(2, "ReadFile", unitFilePath, res)
        /\ CASE res = "err" -> oldContent' = oldContent /\ Return("units", TRUE, 0)
             [] OTHER ->
                /\ oldContent' = ReadFile(fs, unitFilePath).data
                /\ IF unit.Content[1] # oldContent'
                   THEN Goto("UnitWriteFile")
                   ELSE Goto("UnitChmod")
    /\ UNCHANGED << fs, nodeObj, passes, prev, start, osc, node, oscChanges, i, j,
                    tmpDir, phaseErr, tasks >>

\* r.FS.WriteFile(unitFilePath, newUnitContent, defaultFilePermissions)
UnitWriteFile ==
    /\ pc = "UnitWriteFile"
    /\ \E res \in {"ok", "err"} :
        /\ Logged(2, "WriteFile", unitFilePath, res)
        /\ IF res = "ok"
           THEN /\ fs' = WriteFile(fs, unitFilePath, unit.Content[1], defaultFilePermissions)
                /\ Goto("UnitChmod")
           ELSE fs' = fs /\ Return("units", TRUE, 0)
    /\ UNCHANGED << nodeObj, passes, prev, start, osc, node, oscChanges, i, j, oldContent, tmpDir,
                    phaseErr, tasks >>

\* r.FS.Chmod(unitFilePath, defaultFilePermissions); fails on a missing file
UnitChmod ==
    /\ pc = "UnitChmod"
    /\ \E res \in {IF Exists(fs, unitFilePath) THEN "ok" ELSE "err", "err"} :
        /\ Logged(2, "Chmod", unitFilePath, res)
        /\ IF res = "ok"
           THEN /\ fs' = Chmod(fs, unitFilePath, defaultFilePermissions)
                /\ Goto("UnitDropIns")
           ELSE fs' = fs /\ Return("units", TRUE, 0)
    /\ UNCHANGED << nodeObj, passes, prev, start, osc, node, oscChanges, i, j, oldContent, tmpDir,
                    phaseErr, tasks >>

\* "if len(unit.DropIns) == 0"
UnitDropIns ==
    /\ pc = "UnitDropIns"
    /\ IF Len(unit.DropIns) = 0
       THEN Goto("UnitRemoveAllDropIns")
       ELSE Goto("UnitMkdirAllDropIns")
    /\ UNCHANGED << fs, nodeObj, passes, prev, start, osc, node, oscChanges, i, j, oldContent, tmpDir,
                    phaseErr, tasks, oplog >>

\* mutant: the drop-in files are removed, the directory stays
UnitRemoveAllDropInsEmptying ==
    /\ pc = "UnitRemoveAllDropIns"
    /\ \E res \in {"ok", "err"} :
        /\ Logged(2, "RemoveAll", dropInDirectory, res)
        /\ IF res = "ok"
           THEN /\ fs' = [q \in AllPaths |->
                            IF q \in Below(dropInDirectory) THEN Absent ELSE fs[q]]
                /\ Goto("UnitEnablement")
           ELSE fs' = fs /\ Return("units", TRUE, 0)
    /\ UNCHANGED << nodeObj, passes, prev, start, osc, node, oscChanges, i, j, oldContent, tmpDir,
                    phaseErr, tasks >>

\* r.FS.RemoveAll(dropInDirectory)
UnitRemoveAllDropIns ==
    /\ pc = "UnitRemoveAllDropIns"
    /\ \E res \in {"ok", "err"} :
        /\ Logged(2, "RemoveAll", dropInDirectory, res)
        /\ IF res = "ok"
           THEN fs' = RemoveAll(fs, dropInDirectory) /\ Goto("UnitEnablement")
           ELSE fs' = fs /\ Return("units", TRUE, 0)
    /\ UNCHANGED << nodeObj, passes, prev, start, osc, node, oscChanges, i, j, oldContent, tmpDir,
                    phaseErr, tasks >>

\* r.FS.MkdirAll(dropInDirectory)
UnitMkdirAllDropIns ==
    /\ pc = "UnitMkdirAllDropIns"
    /\ \E res \in {"ok", "err"} :
        /\ Logged(2, "MkdirAll", dropInDirectory, res)
        /\ IF res = "ok"
           THEN fs' = MkdirAll(fs, dropInDirectory) /\ Goto("DropInsChangedLoop")
           ELSE fs' = fs /\ Return("units", TRUE, 0)
    /\ j' = 1
    /\ UNCHANGED << nodeObj, passes, prev, start, osc, node, oscChanges, i, oldContent, tmpDir,
                    phaseErr, tasks >>

dropIn == unit.dropIns.changed[j]

dropInFilePath == DropInFilePath(unit.Name, dropIn.Name)

deletedDropIn == unit.dropIns.deleted[j]

\* "for _, dropIn := range unit.dropIns.changed"
DropInsChangedLoop ==
    /\ pc = "DropInsChangedLoop"
    /\ IF j > Len(unit.dropIns.changed)
       THEN Goto("DropInsDeletedLoop") /\ j' = 1
       ELSE Goto("DropInReadFile") /\ j' = j
    /\ UNCHANGED << fs, nodeObj, passes, prev, start, osc, node, oscChanges, i, oldContent, tmpDir,
                    phaseErr, tasks, oplog >>

\* r.FS.ReadFile(dropInFilePath), not found tolerated; then bytes.Equal
DropInReadFile ==
    /\ pc = "DropInReadFile"
    /\ \E res \in {ReadFile(fs, dropInFilePath).res, "err"} :
        /\ Logged(2, "ReadFile", dropInFilePath, res)
        /\ CASE res = "err" -> oldContent' = oldContent /\ Return("units", TRUE, 0)
             [] OTHER ->
                /\ oldContent' = ReadFile(fs, dropInFilePath).data
                /\ IF dropIn.Content # oldContent'
                   THEN Goto("DropInWriteFile")
                   ELSE Goto("DropInChmod")
    /\ UNCHANGED << fs, nodeObj, passes, prev, start, osc, node, oscChanges, i, j,
                    tmpDir, phaseErr, tasks >>

\* r.FS.WriteFile(dropInFilePath, newDropInContent, defaultFilePermissions)
DropInWriteFile ==
    /\ pc = "DropInWriteFile"
    /\ \E res \in {"ok", "err"} :
        /\ Logged(2, "WriteFile", dropInFilePath, res)
        /\ IF res = "ok"
           THEN /\ fs' = WriteFile(fs, dropInFilePath, dropIn.Content, defaultFilePermissions)
                /\ Goto("DropInChmod")
           ELSE fs' = fs /\ Return("units", TRUE, 0)
    /\ UNCHANGED << nodeObj, passes, prev, start, osc, node, oscChanges, i, j, oldContent, tmpDir,
                    phaseErr, tasks >>

\* r.FS.Chmod(dropInFilePath, defaultFilePermissions); fails on a missing file
DropInChmod ==
    /\ pc = "DropInChmod"
    /\ \E res \in {IF Exists(fs, dropInFilePath) THEN "ok" ELSE "err", "err"} :
        /\ Logged(2, "Chmod", dropInFilePath, res)
        /\ IF res = "ok"
           THEN /\ fs' = Chmod(fs, dropInFilePath, defaultFilePermissions)
                /\ j' = j + 1 /\ Goto("DropInsChangedLoop")
           ELSE fs' = fs /\ j' = j /\ Return("units", TRUE, 0)
    /\ UNCHANGED << nodeObj, passes, prev, start, osc, node, oscChanges, i, oldContent, tmpDir,
                    phaseErr, tasks >>

\* "for _, dropIn := range unit.dropIns.deleted"
DropInsDeletedLoop ==
    /\ pc = "DropInsDeletedLoop"
    /\ IF j > Len(unit.dropIns.deleted)
       THEN Goto("UnitEnablement")
       ELSE Goto("DropInRemove")
    /\ UNCHANGED << fs, nodeObj, passes, prev, start, osc, node, oscChanges, i, j, oldContent, tmpDir,
                    phaseErr, tasks, oplog >>

\* r.FS.Remove of a deleted drop-in, not found tolerated
DropInRemove ==
    /\ pc = "DropInRemove"
    /\ LET path == DropInFilePath(unit.Name, deletedDropIn.Name)
       IN  \E res \in {IF Exists(fs, path) THEN "ok" ELSE "notfound", "err"} :
            /\ Logged(2, "Remove", path, res)
            /\ CASE res = "ok" ->
                        fs' = Remove(fs, path) /\ j' = j + 1 /\ Goto("DropInsDeletedLoop")
                 [] res = "notfound" ->
                        fs' = fs /\ j' = j + 1 /\ Goto("DropInsDeletedLoop")
                 [] res = "err" -> fs' = fs /\ j' = j /\ Return("units", TRUE, 0)
    /\ UNCHANGED << nodeObj, passes, prev, start, osc, node, oscChanges, i, oldContent, tmpDir,
                    phaseErr, tasks >>

\* mutant: a unit without the flag counts as disabled
enabledWhenSet(u) == u.Enable # Nil /\ u.Enable[1]

\* the unit is enabled when unit.Enable is true or nil
enabled(u) == Deref(u.Enable, TRUE)

\* r.DBus.Enable or r.DBus.Disable of the changed unit
UnitEnablement ==
    /\ pc = "UnitEnablement"
    /\ \E res \in {"ok", "err"} :
        /\ Logged(2, IF enabled(unit) THEN "Enable" ELSE "Disable", unit.Name, res)
        /\ IF res = "ok"
           THEN i' = i + 1 /\ Goto("UnitsLoop")
           ELSE i' = i /\ Return("units", TRUE, 0)
    /\ UNCHANGED << fs, nodeObj, passes, prev, start, osc, node, oscChanges, j, oldContent, tmpDir,
                    phaseErr, tasks >>

(***************************************************************************)
(* Phase 3: removeDeletedUnits.                                            *)
(***************************************************************************)
deletedUnit == oscChanges.units.deleted[i]

\* "for _, unit := range units"
DeletedUnitsLoop ==
    /\ pc = "DeletedUnitsLoop"
    /\ IF i > Len(oscChanges.units.deleted)
       THEN Continue("DeletedUnitsLoop") /\ i' = 1
       ELSE Goto("DeletedUnitDisable") /\ i' = i
    /\ UNCHANGED << fs, nodeObj, passes, prev, start, osc, node, oscChanges, j, oldContent,
                    tmpDir, phaseErr, tasks, oplog >>

\* mutant: the error of Disable is dropped, the unit is stopped and removed
DeletedUnitDisableIgnoringError ==
    /\ pc = "DeletedUnitDisable"
    /\ \E res \in {"ok", "err"} :
        /\ oplog' = Append(oplog, [ph |-> 3, op |-> "Disable",
                                   tgt |-> oscChanges.units.deleted[i].Name, res |-> res])
        /\ pc' = "DeletedUnitStop" /\ result' = result
    /\ UNCHANGED << fs, nodeObj, passes, prev, start, osc, node, oscChanges, i, j,
                    oldContent, tmpDir, phaseErr, tasks >>

\* r.DBus.Disable(ctx, unit.Name)
DeletedUnitDisable ==
    /\ pc = "DeletedUnitDisable"
    /\ \E res \in {"ok", "err"} :
        /\ Logged(3, "Disable", deletedUnit.Name, res)
        /\ IF res = "ok" THEN Goto("DeletedUnitStop") ELSE Return("deletedUnits", TRUE, 0)
    /\ UNCHANGED << fs, nodeObj, passes, prev, start, osc, node, oscChanges, i, j, oldContent, tmpDir,
                    phaseErr, tasks >>

\* mutant: the error of Stop is dropped, the unit file is removed
DeletedUnitStopIgnoringError ==
    /\ pc = "DeletedUnitStop"
    /\ \E res \in {"ok", "err"} :
        /\ Logged(3, "Stop", deletedUnit.Name, res)
        /\ Goto("DeletedUnitRemove")
    /\ UNCHANGED << fs, nodeObj, passes, prev, start, osc, node, oscChanges, i, j, oldContent, tmpDir,
                    phaseErr, tasks >>

\* r.DBus.Stop(ctx, r.Recorder, node, unit.Name)
DeletedUnitStop ==
    /\ pc = "DeletedUnitStop"
    /\ \E res \in {"ok", "err"} :
        /\ Logged(3, "Stop", deletedUnit.Name, res)
        /\ IF res = "ok" THEN Goto("DeletedUnitRemove") ELSE Return("deletedUnits", TRUE, 0)
    /\ UNCHANGED << fs, nodeObj, passes, prev, start, osc, node, oscChanges, i, j, oldContent, tmpDir,
                    phaseErr, tasks >>

\* r.FS.Remove of the unit file, not found tolerated
DeletedUnitRemove ==
    /\ pc = "DeletedUnitRemove"
    /\ LET path == UnitFilePath(deletedUnit.Name)
       IN  \E res \in {IF Exists(fs, path) THEN "ok" ELSE "notfound", "err"} :
            /\ Logged(3, "Remove", path, res)
            /\ CASE res = "ok" -> fs' = Remove(fs, path) /\ Goto("DeletedUnitRemoveAll")
                 [] res = "notfound" -> fs' = fs /\ Goto("DeletedUnitRemoveAll")
                 [] res = "err" -> fs' = fs /\ Return("deletedUnits", TRUE, 0)
    /\ UNCHANGED << nodeObj, passes, prev, start, osc, node, oscChanges, i, j, oldContent, tmpDir,
                    phaseErr, tasks >>

\* r.FS.RemoveAll of the drop-in directory
DeletedUnitRemoveAll ==
    /\ pc = "DeletedUnitRemoveAll"
    /\ \E res \in {"ok", "err"} :
        /\ Logged(3, "RemoveAll", DropInDirectory(deletedUnit.Name), res)
        /\ IF res = "ok"
           THEN /\ fs' = RemoveAll(fs, DropInDirectory(deletedUnit.Name))
                /\ i' = i + 1 /\ Goto("DeletedUnitsLoop")
           ELSE fs' = fs /\ i' = i /\ Return("deletedUnits", TRUE, 0)
    /\ UNCHANGED << nodeObj, passes, prev, start, osc, node, oscChanges, j, oldContent, tmpDir,
                    phaseErr, tasks >>

\* mutant: the error of DaemonReload is dropped
DaemonReloadIgnoringError ==
    /\ pc = "DaemonReload"
    /\ \E res \in {"ok", "err"} :
        /\ oplog' = Append(oplog, [ph |-> 4, op |-> "DaemonReload", tgt |-> "systemd",
                                   res |-> res])
        /\ pc' = "Fork" /\ result' = result
    /\ UNCHANGED << fs, nodeObj, passes, prev, start, osc, node, oscChanges, i, j,
                    oldContent, tmpDir, phaseErr, tasks >>

(***************************************************************************)
(* Phase 4: r.DBus.DaemonReload.                                           *)
(***************************************************************************)
DaemonReload ==
    /\ pc = "DaemonReload"
    /\ \E res \in {"ok", "err"} :
        /\ Logged(4, "DaemonReload", "systemd", res)
        /\ IF res = "ok" THEN Continue("DaemonReload") ELSE Return("reload", TRUE, 0)
    /\ UNCHANGED << fs, nodeObj, passes, prev, start, osc, node, oscChanges, i, j, oldContent, tmpDir,
                    phaseErr, tasks >>

(***************************************************************************)
(* Phase 5: executeUnitCommands.  One task per changed unit, run by        *)
(* flow.Parallel, which starts them all and waits for them all.            *)
(***************************************************************************)
\* mutant: only the explicit stop command stops a unit
stopsOnCommandOnly(u) == u.Command # Nil /\ u.Command[1] = CommandStop

\* the branch of the task: Stop for a disabled unit or an explicit stop command
stops(u) == ~ enabled(u) \/ (u.Command # Nil /\ u.Command[1] = CommandStop)

command(u) == IF stops(u) THEN "Stop" ELSE "Restart"

\* "fns = append(fns, ...)" for every unit, then flow.Parallel(fns...)(ctx)
Fork ==
    /\ pc = "Fork"
    /\ tasks' = [k \in DOMAIN oscChanges.units.changed |-> "ready"]
    /\ Goto("Parallel")
    /\ UNCHANGED << fs, nodeObj, passes, prev, start, osc, node, oscChanges, i, j, oldContent, tmpDir,
                    phaseErr, oplog >>

\* a task issues r.DBus.Stop or r.DBus.Restart for its unit
TaskCall(k) ==
    /\ pc = "Parallel"
    /\ tasks[k] = "ready"
    /\ tasks' = [tasks EXCEPT ![k] = "running"]
    /\ Logged(5, command(oscChanges.units.changed[k]), oscChanges.units.changed[k].Name,
              "called")
    /\ UNCHANGED << fs, nodeObj, passes, prev, start, pc, osc, node, oscChanges, i, j, oldContent, tmpDir,
                    phaseErr, result >>

\* mutant: a failed command cancels the tasks that have not started
TaskReturnCancelling(k) ==
    /\ pc = "Parallel"
    /\ tasks[k] = "running"
    /\ \E res \in {"ok", "err"} :
        /\ tasks' = [n \in DOMAIN tasks |->
                        IF n = k THEN res
                        ELSE IF res = "err" /\ tasks[n] = "ready" THEN "err"
                        ELSE tasks[n]]
        /\ Logged(5, command(oscChanges.units.changed[k]),
                  oscChanges.units.changed[k].Name, res)
    /\ UNCHANGED << fs, nodeObj, passes, prev, start, pc, osc, node, oscChanges, i, j, oldContent, tmpDir,
                    phaseErr, result >>

\* the call of a task returns
TaskReturn(k) ==
    /\ pc = "Parallel"
    /\ tasks[k] = "running"
    /\ \E res \in {"ok", "err"} :
        /\ tasks' = [tasks EXCEPT ![k] = res]
        /\ Logged(5, command(oscChanges.units.changed[k]),
                  oscChanges.units.changed[k].Name, res)
    /\ UNCHANGED << fs, nodeObj, passes, prev, start, pc, osc, node, oscChanges, i, j, oldContent, tmpDir,
                    phaseErr, result >>

\* flow.Parallel returns when every task has returned, with their errors
Join ==
    /\ pc = "Parallel"
    /\ \A k \in DOMAIN tasks : tasks[k] \in {"ok", "err"}
    /\ IF \E k \in DOMAIN tasks : tasks[k] = "err"
       THEN Return("commands", TRUE, 0)
       ELSE Continue("Fork")
    /\ i' = 1
    /\ UNCHANGED << fs, nodeObj, passes, prev, start, osc, node, oscChanges, j, oldContent, tmpDir,
                    phaseErr, tasks, oplog >>

(***************************************************************************)
(* Phase 6: removeDeletedFiles.                                            *)
(***************************************************************************)
deletedFile == oscChanges.files.deleted[i]

\* "for _, file := range files"
DeletedFilesLoop ==
    /\ pc = "DeletedFilesLoop"
    /\ IF i > Len(oscChanges.files.deleted)
       THEN Continue("DeletedFilesLoop") /\ i' = 1
       ELSE Goto("DeletedFileRemove") /\ i' = i
    /\ UNCHANGED << fs, nodeObj, passes, prev, start, osc, node, oscChanges, j, oldContent,
                    tmpDir, phaseErr, tasks, oplog >>

\* r.FS.Remove(file.Path), not found tolerated
\* mutant: a file that is already absent is an error as well
DeletedFileRemoveStrict ==
    /\ pc = "DeletedFileRemove"
    /\ \E res \in {IF Exists(fs, deletedFile.Path) THEN "ok" ELSE "notfound", "err"} :
        /\ Logged(6, "Remove", deletedFile.Path, res)
        /\ CASE res = "ok" ->
                    fs' = Remove(fs, deletedFile.Path) /\ i' = i + 1
                        /\ Goto("DeletedFilesLoop")
             [] OTHER -> fs' = fs /\ i' = i /\ Return("deletedFiles", TRUE, 0)
    /\ UNCHANGED << nodeObj, passes, prev, start, osc, node, oscChanges, j, oldContent, tmpDir,
                    phaseErr, tasks >>

DeletedFileRemove ==
    /\ pc = "DeletedFileRemove"
    /\ \E res \in {IF Exists(fs, deletedFile.Path) THEN "ok" ELSE "notfound", "err"} :
        /\ Logged(6, "Remove", deletedFile.Path, res)
        /\ CASE res = "ok" ->
                    fs' = Remove(fs, deletedFile.Path) /\ i' = i + 1
                        /\ Goto("DeletedFilesLoop")
             [] res = "notfound" -> fs' = fs /\ i' = i + 1 /\ Goto("DeletedFilesLoop")
             [] res = "err" -> fs' = fs /\ i' = i /\ Return("deletedFiles", TRUE, 0)
    /\ UNCHANGED << nodeObj, passes, prev, start, osc, node, oscChanges, j, oldContent, tmpDir,
                    phaseErr, tasks >>

(***************************************************************************)
(* Reconcile, after the apply phases.                                      *)
(***************************************************************************)
\* mutant: the error of writing the last-applied file is dropped
WriteLastAppliedIgnoringError ==
    /\ pc = "WriteLastApplied"
    /\ \E res \in {"ok", "err"} :
        /\ oplog' = Append(oplog, [ph |-> 7, op |-> "WriteFile",
                                   tgt |-> lastAppliedOperatingSystemConfigFilePath,
                                   res |-> res])
        /\ fs' = IF res = "ok"
                 THEN [fs EXCEPT ![lastAppliedOperatingSystemConfigFilePath] =
                          [kind |-> "file", data |-> osc.raw, perm |-> Perm0644]]
                 ELSE fs
        /\ pc' = "NodeNil" /\ result' = result
    /\ UNCHANGED << nodeObj, passes, prev, start, osc, node, oscChanges, i, j, oldContent,
                    tmpDir, phaseErr, tasks >>

\* r.FS.WriteFile(lastAppliedOperatingSystemConfigFilePath, oscRaw, 0644)
WriteLastApplied ==
    /\ pc = "WriteLastApplied"
    /\ \E res \in {"ok", "err"} :
        /\ Logged(7, "WriteFile", lastAppliedOperatingSystemConfigFilePath, res)
        /\ IF res = "ok"
           THEN /\ fs' = WriteFile(fs, lastAppliedOperatingSystemConfigFilePath, osc.raw,
                                   Perm0644)
                /\ Goto("NodeNil")
           ELSE fs' = fs /\ Return("lastApplied", TRUE, 0)
    /\ UNCHANGED << nodeObj, passes, prev, start, osc, node, oscChanges, i, j, oldContent, tmpDir,
                    phaseErr, tasks >>

\* mutant: without a Node the pass asks for no requeue
NodeNilNoRequeue ==
    /\ pc = "NodeNil"
    /\ IF node.nil THEN Return("nodeNil", FALSE, 0) ELSE Goto("Patch")
    /\ UNCHANGED << fs, nodeObj, passes, prev, start, osc, node, oscChanges, i, j, oldContent, tmpDir,
                    phaseErr, tasks, oplog >>

\* mutant: without a Node the pass requeues after the sync period
NodeNilAfterSyncPeriod ==
    /\ pc = "NodeNil"
    /\ IF node.nil THEN Return("nodeNil", FALSE, SyncPeriod) ELSE Goto("Patch")
    /\ UNCHANGED << fs, nodeObj, passes, prev, start, osc, node, oscChanges, i, j, oldContent, tmpDir,
                    phaseErr, tasks, oplog >>

\* "if node == nil": requeue until the kubelet has registered the Node
NodeNil ==
    /\ pc = "NodeNil"
    /\ IF node.nil THEN Return("nodeNil", FALSE, RetryPeriod) ELSE Goto("Patch")
    /\ UNCHANGED << fs, nodeObj, passes, prev, start, osc, node, oscChanges, i, j, oldContent, tmpDir,
                    phaseErr, tasks, oplog >>

\* mutant: the Patch is returned without the requeue after the sync period
PatchWithoutRequeue ==
    /\ pc = "Patch"
    /\ \E res \in {"ok", "err"} :
        /\ Logged(7, "Patch", "node", res)
        /\ nodeObj' = IF res = "ok" THEN [nodeObj EXCEPT !.checksum = osc.checksum]
                      ELSE nodeObj
        /\ Return("patched", res = "err", 0)
    /\ UNCHANGED << fs, passes, prev, start, osc, node, oscChanges, i, j, oldContent, tmpDir,
                    phaseErr, tasks >>

\* mutant: a failed Patch has set the annotation all the same
PatchFailingAfterUpdate ==
    /\ pc = "Patch"
    /\ \E res \in {"ok", "err"} :
        /\ Logged(7, "Patch", "node", res)
        /\ nodeObj' = [nodeObj EXCEPT !.checksum = osc.checksum]
        /\ Return("patched", res = "err", SyncPeriod)
    /\ UNCHANGED << fs, passes, prev, start, osc, node, oscChanges, i, j, oldContent, tmpDir,
                    phaseErr, tasks >>

\* r.Client.Patch of the Node with the checksum annotation
Patch ==
    /\ pc = "Patch"
    /\ \E res \in {"ok", "err"} :
        /\ Logged(7, "Patch", "node", res)
        /\ nodeObj' = IF res = "ok" THEN [nodeObj EXCEPT !.checksum = osc.checksum]
                      ELSE nodeObj
        /\ Return("patched", res = "err", SyncPeriod)
    /\ UNCHANGED << fs, passes, prev, start, osc, node, oscChanges, i, j, oldContent, tmpDir,
                    phaseErr, tasks >>

(***************************************************************************)
(* Specification.                                                          *)
(***************************************************************************)
Next ==
    \/ NodeRegisters
    \/ StartPass
    \/ GetSecret
    \/ GetNode
    \/ ExtractOSC
    \/ Compute
    \/ Gate
    \/ TempDir
    \/ FilesLoop
    \/ FileMkdirAll
    \/ FileDecode
    \/ FileWriteTmp
    \/ FileRename
    \/ RemoveAllTmp
    \/ UnitsLoop
    \/ UnitReadFile
    \/ UnitWriteFile
    \/ UnitChmod
    \/ UnitDropIns
    \/ UnitRemoveAllDropIns
    \/ UnitMkdirAllDropIns
    \/ DropInsChangedLoop
    \/ DropInReadFile
    \/ DropInWriteFile
    \/ DropInChmod
    \/ DropInsDeletedLoop
    \/ DropInRemove
    \/ UnitEnablement
    \/ DeletedUnitsLoop
    \/ DeletedUnitDisable
    \/ DeletedUnitStop
    \/ DeletedUnitRemove
    \/ DeletedUnitRemoveAll
    \/ DaemonReload
    \/ Fork
    \/ \E k \in DOMAIN tasks : TaskCall(k)
    \/ \E k \in DOMAIN tasks : TaskReturn(k)
    \/ Join
    \/ DeletedFilesLoop
    \/ DeletedFileRemove
    \/ WriteLastApplied
    \/ NodeNil
    \/ Patch

Spec == Init /\ [][Next]_vars

\* a pass is started by the first event, and again when Reconcile returned an
\* error or a requeue delay
Requeue == StartPass /\ (pc = "idle" \/ result.err \/ result.RequeueAfter > 0)

\* Reconcile, once called, runs until it returns, and the controller calls it
\* again whenever a requeue is due
LiveSpec ==
    /\ Init /\ [][Next]_vars
    /\ WF_vars(pc \notin {"idle", "done"} /\ Next)
    /\ WF_vars(Requeue)

(***************************************************************************)
(* applyChangedFiles on its own: called with any list of at most MaxFiles  *)
(* files with distinct paths, with or without inline content.              *)
(***************************************************************************)
MaxFiles == 2

FileArguments ==
    {File("/etc/a.conf", Nil, Nil),
     File("/etc/a.conf", Inline("", "a"), Nil),
     File("/opt/b.conf", Nil, Nil),
     File("/opt/b.conf", Inline("b64", "Yg=="), Ptr(Perm0644))}

FileLists ==
    {l \in UNION {[1..n -> FileArguments] : n \in 0..MaxFiles} :
        \A a, b \in DOMAIN l : a # b => l[a].Path # l[b].Path}

FilesInit ==
    /\ fs = [p \in AllPaths |->
                CASE p = "/etc" -> DirEntry
                  [] p = UnmanagedPath -> FileEntry("node-1", Perm0644)
                  [] OTHER -> Absent]
    /\ nodeObj = [exists |-> FALSE, checksum |-> ""]
    /\ passes = 1
    /\ prev = ""
    /\ start = [fs |-> fs, nodeObj |-> nodeObj]
    /\ pc = "TempDir"
    /\ osc = NoOSC
    /\ node = NilNode
    /\ \E l \in FileLists :
          oscChanges = [files |-> [changed |-> l, deleted |-> << >>],
                        units |-> [changed |-> << >>, deleted |-> << >>]]
    /\ i = 1
    /\ j = 1
    /\ oldContent = ""
    /\ tmpDir = ""
    /\ phaseErr = FALSE
    /\ tasks = << >>
    /\ result = NoResult
    /\ oplog = << >>

FilesNext ==
    \/ TempDir
    \/ FilesLoop
    \/ FileMkdirAll
    \/ FileDecode
    \/ FileWriteTmp
    \/ FileRename
    \/ RemoveAllTmp

FilesSpec == FilesInit /\ [][FilesNext]_vars

(***************************************************************************)
(* Reading the log of the current pass.                                    *)
(***************************************************************************)
Idx == DOMAIN oplog

\* the best-effort removal of the scratch directory
IsCleanup(e) == e.ph = 1 /\ e.op = "RemoveAll"

\* a call of phase n failed (the scratch cleanup does not count)
Failed(n) ==
    \E k \in Idx : oplog[k].ph = n /\ oplog[k].res = "err" /\ ~ IsCleanup(oplog[k])

\* the pass entered the apply phases
ApplyRan == \E k \in Idx : oplog[k].ph = 1

\* the pass is over and all six phases ran without a failure
PhasesSucceeded == pc = "done" /\ ApplyRan /\ \A n \in 1..6 : ~ Failed(n)

\* the log holds a call of phase ph with this operation, target and result
Has(ph, ops, tgt, ress) ==
    \E k \in Idx : /\ oplog[k].ph = ph /\ oplog[k].op \in ops
                   /\ oplog[k].tgt = tgt /\ oplog[k].res \in ress

ChangedFiles == SeqToSet(oscChanges.files.changed)

DeletedFiles == SeqToSet(oscChanges.files.deleted)

ChangedUnits == SeqToSet(oscChanges.units.changed)

DeletedUnits == SeqToSet(oscChanges.units.deleted)

\* every operation of phase n has been made and has returned successfully
PhaseDone(n) ==
    CASE n = 1 -> /\ \A f \in ChangedFiles :
                        f.Inline # Nil => Has(1, {"Rename"}, f.Path, {"ok"})
                  /\ \E k \in Idx : IsCleanup(oplog[k])
      [] n = 2 -> \A u \in ChangedUnits : Has(2, {"Enable", "Disable"}, u.Name, {"ok"})
      [] n = 3 -> \A u \in DeletedUnits :
                        Has(3, {"RemoveAll"}, DropInDirectory(u.Name), {"ok"})
      [] n = 4 -> Has(4, {"DaemonReload"}, "systemd", {"ok"})
      [] n = 5 -> \A u \in ChangedUnits : Has(5, {"Stop", "Restart"}, u.Name, {"ok"})
      [] n = 6 -> \A f \in DeletedFiles : Has(6, {"Remove"}, f.Path, {"ok", "notfound"})

(***************************************************************************)
(* C1: in a pass that runs the apply phases, the calls are made phase by   *)
(* phase in the order 1 to 6, and a call of a phase (or the write of the   *)
(* last-applied file after them) is only made once every operation of      *)
(* every earlier phase has returned successfully, the concurrent unit      *)
(* commands of phase 5 included.  (The invariant holds in the state right  *)
(* after each call, so the operations of the earlier phases are in the log *)
(* before the call.)                                                       *)
(***************************************************************************)
C1_PhasesInOrder ==
    /\ \A a \in Idx : a < Len(oplog) => oplog[a].ph <= oplog[a + 1].ph
    /\ \A n \in 1..6 : (\E k \in Idx : oplog[k].ph > n) => PhaseDone(n)

\* a pass with calls in all six phases has finished the sixth
C1_Witness ==
    /\ pc = "WriteLastApplied"
    /\ \A n \in 1..6 : \E k \in Idx : oplog[k].ph = n

(***************************************************************************)
(* C2: in every pass the last-applied file is written at most once; it is  *)
(* written in a pass exactly when all six phases of the pass succeeded,    *)
(* with the raw bytes of the configuration of the pass; a pass that does   *)
(* not write it leaves it as it was when the pass started.                 *)
(***************************************************************************)
LastAppliedWrites ==
    {k \in Idx : oplog[k].op = "WriteFile"
                    /\ oplog[k].tgt = lastAppliedOperatingSystemConfigFilePath}

LastAppliedWritten == \E k \in LastAppliedWrites : oplog[k].res = "ok"

C2_LastAppliedOnlyAfterSuccess ==
    /\ Cardinality(LastAppliedWrites) <= 1
    /\ pc = "done" => (Cardinality(LastAppliedWrites) = 1 <=> PhasesSucceeded)
    /\ LastAppliedWritten =>
          /\ fs[lastAppliedOperatingSystemConfigFilePath].kind = "file"
          /\ fs[lastAppliedOperatingSystemConfigFilePath].data = osc.raw
    /\ ~ LastAppliedWritten =>
          fs[lastAppliedOperatingSystemConfigFilePath]
              = start.fs[lastAppliedOperatingSystemConfigFilePath]

\* a pass replaced the last-applied file of another configuration
C2_Witness ==
    /\ pc = "done"
    /\ LastAppliedWritten
    /\ start.fs[lastAppliedOperatingSystemConfigFilePath].kind = "file"
    /\ start.fs[lastAppliedOperatingSystemConfigFilePath].data # osc.raw

(***************************************************************************)
(* C3: the checksum annotation of the Node only changes in a pass whose    *)
(* six phases all succeeded and that wrote the last-applied file, and then *)
(* to the checksum of the configuration of the pass.                       *)
(***************************************************************************)
C3_AnnotationOnlyAfterSuccess ==
    nodeObj.checksum # start.nodeObj.checksum =>
        /\ PhasesSucceeded
        /\ LastAppliedWritten
        /\ nodeObj.checksum = osc.checksum

\* a pass set the annotation
C3_Witness == pc = "done" /\ nodeObj.checksum # start.nodeObj.checksum

(***************************************************************************)
(* C4 as claimed: a call of a phase that returns an error, other than not  *)
(* found on a removal and the scratch cleanup, is followed by no call of a *)
(* later phase and makes the pass return an error.  Refuted: not found on  *)
(* the read of the installed unit file or drop-in is tolerated as well.    *)
(***************************************************************************)
ErrorAsClaimed(e) ==
    /\ e.ph \in 1..6
    /\ e.res \in {"err", "notfound"}
    /\ ~ (e.op \in {"Remove", "RemoveAll"} /\ e.res = "notfound")
    /\ ~ IsCleanup(e)

C4_AsClaimed ==
    \A k \in Idx : ErrorAsClaimed(oplog[k]) =>
        /\ \A m \in Idx : m > k => oplog[m].ph = oplog[k].ph
        /\ pc = "done" => result.err

(***************************************************************************)
(* C4, amended: a call of a phase that fails (not found on a removal or on *)
(* the read of the installed unit file or drop-in is no failure, nor is a  *)
(* failure of the scratch cleanup) ends the phase: after it only the       *)
(* scratch cleanup runs, or in phase 5 the commands of the sibling tasks;  *)
(* no call of a later phase is made, the pass returns an error without a   *)
(* requeue delay, and what was written or removed before stays so.         *)
(***************************************************************************)
Failure(e) == e.ph \in 1..6 /\ e.res = "err" /\ ~ IsCleanup(e)

C4_FailureAbortsPass ==
    /\ \A k \in Idx : Failure(oplog[k]) =>
          /\ \A m \in Idx : m > k =>
                /\ oplog[m].ph = oplog[k].ph
                /\ oplog[k].ph # 5 => IsCleanup(oplog[m])
          /\ pc \in {"done", "RemoveAllTmp", "Parallel"}
          /\ pc = "done" => result.err /\ result.RequeueAfter = 0
    /\ (\E k \in Idx : Failure(oplog[k])) =>
          \A k \in Idx :
              /\ (oplog[k].op = "Rename" \/ (oplog[k].op = "WriteFile" /\ oplog[k].ph = 2))
                    /\ oplog[k].res = "ok"
                 => fs[oplog[k].tgt].kind = "file"
              /\ oplog[k].op = "Remove" /\ oplog[k].res = "ok"
                 => fs[oplog[k].tgt].kind = "none"

\* a pass failed in phase 3 after it had installed a file in phase 1
C4_Witness ==
    /\ pc = "done"
    /\ Failed(3)
    /\ \E k \in Idx : oplog[k].op = "Rename" /\ oplog[k].res = "ok"

(***************************************************************************)
(* C5 as claimed: a pass that finds the checksum annotation of the Node    *)
(* equal to the checksum of the configuration returns success without      *)
(* having run the change computation.  Refuted: the computation (which     *)
(* reads the last-applied file) runs before the comparison, and the pass   *)
(* returns its error.                                                      *)
(***************************************************************************)
\* the pass is over, it fetched the configuration and the Node, and the
\* annotation of the Node equals the checksum of the configuration
DoneWithEqualChecksums ==
    /\ pc = "done"
    /\ result.at \notin {"gone", "getSecret", "getNode", "extract"}
    /\ start.nodeObj.exists
    /\ start.nodeObj.checksum = osc.checksum

C5_AsClaimed ==
    DoneWithEqualChecksums =>
        /\ result.at = "upToDate" /\ ~ result.err
        /\ \A k \in Idx : oplog[k].op = "Get"

(***************************************************************************)
(* C5, amended: a pass that finds the checksum annotation of the Node      *)
(* equal to the checksum of the configuration makes no call of any phase,  *)
(* leaves the filesystem (the last-applied file included) and the          *)
(* annotation as they were, and returns success without requeue delay, or  *)
(* the error of the change computation, which ran before the comparison.   *)
(***************************************************************************)
C5_EqualChecksumsNoEffect ==
    DoneWithEqualChecksums =>
        /\ \A k \in Idx : oplog[k].ph = 0
        /\ fs = start.fs
        /\ nodeObj.checksum = start.nodeObj.checksum
        /\ \/ result = [RequeueAfter |-> 0, err |-> FALSE, at |-> "upToDate"]
           \/ result = [RequeueAfter |-> 0, err |-> TRUE, at |-> "compute"]

\* a pass skipped the apply phases
C5_Witness == DoneWithEqualChecksums /\ result.at = "upToDate"

(***************************************************************************)
(* C6: a pass that reaches the comparison skips the apply phases exactly   *)
(* when the Node exists and its checksum annotation equals the checksum of *)
(* the configuration; otherwise it enters phase 1, whatever was applied    *)
(* before.                                                                 *)
(***************************************************************************)
PastGate ==
    /\ pc \notin {"idle", "GetSecret", "GetNode", "ExtractOSC", "Compute", "Gate"}
    /\ ~ (pc = "done" /\ result.at \in {"gone", "getSecret", "getNode", "extract", "compute"})

C6_GateIsChecksumEquality ==
    PastGate =>
        IF start.nodeObj.exists /\ start.nodeObj.checksum = osc.checksum
        THEN pc = "done" /\ result.at = "upToDate" /\ ~ ApplyRan
        ELSE result.at # "upToDate" /\ (ApplyRan \/ pc = "TempDir")

\* the phases run for a configuration that the last-applied file already holds
C6_Witness ==
    /\ ApplyRan
    /\ start.fs[lastAppliedOperatingSystemConfigFilePath].kind = "file"
    /\ start.fs[lastAppliedOperatingSystemConfigFilePath].data = osc.raw

(***************************************************************************)
(* C7 as claimed: the pass that follows a successful pass for the same     *)
(* configuration computes no change, writes nothing to the filesystem and  *)
(* makes no call of the service manager, whether the Node exists or not.   *)
(* Refuted: without the annotation on the Node the apply phases run on the *)
(* empty change set, with their scratch directory, DaemonReload and the    *)
(* write of the last-applied file.                                         *)
(***************************************************************************)
\* the pass is over, computed its changes, and the pass before it applied
\* the same configuration and returned no error
SecondPassDone ==
    /\ pc = "done"
    /\ prev # "" /\ prev = osc.raw
    /\ result.at \notin {"gone", "getSecret", "getNode", "extract", "compute"}

ServiceCalls == {"Enable", "Disable", "Stop", "Restart", "DaemonReload"}

C7_AsClaimed ==
    SecondPassDone =>
        /\ oscChanges = NoChanges
        /\ fs = start.fs
        /\ \A k \in Idx : oplog[k].op \notin ServiceCalls

(***************************************************************************)
(* C7, amended: the pass that follows a successful pass for the same       *)
(* configuration computes no change, makes no Enable, Disable, Stop or     *)
(* Restart call and leaves every path outside its scratch directory as it  *)
(* was.  With the annotation on the Node it makes no call at all; without  *)
(* it (Node absent or not yet annotated) it creates and removes its        *)
(* scratch directory, calls DaemonReload, and writes the same bytes to the *)
(* last-applied file, and nothing else.                                    *)
(***************************************************************************)
C7_SecondPassChangesNothing ==
    SecondPassDone =>
        /\ oscChanges = NoChanges
        /\ \A k \in Idx : oplog[k].ph >= 1 =>
              \/ oplog[k].op = "TempDir"
              \/ IsCleanup(oplog[k])
              \/ oplog[k].op = "DaemonReload"
              \/ /\ oplog[k].op = "WriteFile"
                 /\ oplog[k].tgt = lastAppliedOperatingSystemConfigFilePath
              \/ oplog[k].op = "Patch"
        /\ \A p \in DOMAIN fs : p \notin TempDirs => fs[p] = start.fs[p]
        /\ result.at = "upToDate" => fs = start.fs /\ \A k \in Idx : oplog[k].ph = 0

\* a second pass without a Node ran the phases on the empty change set
C7_Witness ==
    /\ SecondPassDone
    /\ result.at = "nodeNil"
    /\ \E k \in Idx : oplog[k].op = "DaemonReload" /\ oplog[k].res = "ok"
    /\ Paths(osc.Files) # {} /\ Names(osc.Units) # {}

(***************************************************************************)
(* C8 as claimed: DaemonReload is called once when phases 1 to 3 succeeded *)
(* and never otherwise, after every call of phases 1 to 3, and no Stop or  *)
(* Restart precedes it in the pass.  Refuted: phase 3 stops the deleted    *)
(* units before the reload.                                                *)
(***************************************************************************)
Reloads == {k \in Idx : oplog[k].op = "DaemonReload"}

IsReload(e) == e.op = "DaemonReload"

ReloadOnceAfterPhases ==
    /\ \A k \in Idx : IsReload(oplog[k]) =>
          \A m \in Idx : /\ IsReload(oplog[m]) => m = k
                         /\ oplog[m].ph \in 1..3 => m < k
    /\ pc = "done" =>
          ((\E k \in Idx : IsReload(oplog[k]))
              <=> ApplyRan /\ ~ Failed(1) /\ ~ Failed(2) /\ ~ Failed(3))

C8_AsClaimed ==
    /\ ReloadOnceAfterPhases
    /\ \A k \in Reloads : \A m \in Idx :
          m < k => oplog[m].op \notin {"Stop", "Restart"}

(***************************************************************************)
(* C8, amended: DaemonReload is called once when phases 1 to 3 succeeded   *)
(* and never otherwise, after every call of phases 1 to 3; no Restart and  *)
(* no command of phase 5 precedes it, and the only Stop calls before it    *)
(* are those of phase 3 for the deleted units.                             *)
(***************************************************************************)
C8_ReloadBeforeCommands ==
    /\ ReloadOnceAfterPhases
    /\ \A m \in Idx : oplog[m].ph = 5 =>
          \E k \in Idx : k < m /\ IsReload(oplog[k]) /\ oplog[k].res = "ok"
    /\ \A k \in Idx : IsReload(oplog[k]) =>
          \A m \in Idx : m < k =>
              /\ oplog[m].op # "Restart"
              /\ oplog[m].op = "Stop" =>
                    oplog[m].ph = 3 /\ oplog[m].tgt \in Names(oscChanges.units.deleted)

\* a pass stopped a deleted unit, reloaded, then commanded a changed unit
C8_Witness ==
    \E k \in Reloads :
        /\ \E m \in Idx : m < k /\ oplog[m].op = "Stop"
        /\ \E m \in Idx : m > k /\ oplog[m].ph = 5 /\ oplog[m].res = "ok"

(***************************************************************************)
(* C9: the calls of phase 3 are, for each deleted unit in turn, Disable,   *)
(* Stop, removal of the unit file and removal of the drop-in directory, in *)
(* that order; a failed call is the last call of the phase, so that after  *)
(* a failed Disable or Stop the unit file and the drop-in directory of     *)
(* that unit stay, and so do those of the deleted units after it.          *)
(***************************************************************************)
InPhase3(e) == e.ph = 3

Phase3Calls == SelectSeq(oplog, InPhase3)

C9_DeletedUnitSequence ==
    LET calls == Phase3Calls
        deleted == oscChanges.units.deleted
        step(k) == ((k - 1) % 4) + 1
        at(k) == ((k - 1) \div 4) + 1
        untouched(name) ==
            \A p \in {UnitFilePath(name), DropInDirectory(name)}
                       \cup Below(DropInDirectory(name)) : fs[p] = start.fs[p]
    IN  /\ Len(calls) <= 4 * Len(deleted)
        /\ \A k \in DOMAIN calls :
              /\ calls[k].op = << "Disable", "Stop", "Remove", "RemoveAll" >>[step(k)]
              /\ calls[k].tgt = << deleted[at(k)].Name, deleted[at(k)].Name,
                                   UnitFilePath(deleted[at(k)].Name),
                                   DropInDirectory(deleted[at(k)].Name) >>[step(k)]
              /\ calls[k].res = "err" => k = Len(calls)
              /\ step(k) = 4 /\ calls[k].res # "err" =>
                    /\ fs[UnitFilePath(deleted[at(k)].Name)].kind = "none"
                    /\ fs[DropInDirectory(deleted[at(k)].Name)].kind = "none"
        /\ \A n \in DOMAIN deleted :
              (4 * n > Len(calls) + 2 \/ (calls # << >> /\ calls[Len(calls)].res = "err"
                                           /\ n >= at(Len(calls)) /\ step(Len(calls)) <= 2))
                 => untouched(deleted[n].Name)
        /\ (\E k \in Idx : oplog[k].ph > 3) =>
              Len(calls) = 4 * Len(deleted) /\ \A k \in DOMAIN calls : calls[k].res # "err"

\* Stop failed for the first of two deleted units, whose files all stay
C9_Witness ==
    /\ pc = "done"
    /\ Len(oscChanges.units.deleted) = 2
    /\ Len(Phase3Calls) = 2
    /\ Phase3Calls[2].res = "err"
    /\ \E n \in DOMAIN oscChanges.units.deleted :
          fs[UnitFilePath(oscChanges.units.deleted[n].Name)].kind = "file"

(***************************************************************************)
(* C10: phase 5 issues for every changed unit one command and no second:   *)
(* Stop when the unit is disabled (enabled is false) or its command is     *)
(* stop, Restart otherwise, also when enabled is unset; a unit that is not *)
(* among the changed units gets no command.                                *)
(***************************************************************************)
Phase5Returned ==
    \/ pc \in {"DeletedFilesLoop", "DeletedFileRemove", "WriteLastApplied", "NodeNil", "Patch"}
    \/ pc = "done" /\ result.at \in {"commands", "deletedFiles", "lastApplied",
                                      "nodeNil", "patched"}

ExpectedCommand(u) ==
    IF \/ u.Enable = << FALSE >>
       \/ u.Command = << "stop" >>
    THEN "Stop"
    ELSE "Restart"

IsCommand(e) == e.ph = 5 /\ e.res = "called"

C10_OneCommandPerChangedUnit ==
    /\ \A k \in Idx : oplog[k].ph = 5 =>
          /\ oplog[k].tgt \in UnitNames
          /\ IF IsCommand(oplog[k])
             THEN /\ oplog[k].tgt \in Names(oscChanges.units.changed)
                  /\ \E n \in DOMAIN osc.Units :
                        /\ osc.Units[n].Name = oplog[k].tgt
                        /\ oplog[k].op = ExpectedCommand(osc.Units[n])
                  /\ \A m \in Idx :
                        IsCommand(oplog[m]) /\ oplog[m].tgt = oplog[k].tgt => m = k
             ELSE \E m \in Idx : /\ m < k /\ IsCommand(oplog[m])
                                  /\ oplog[m].tgt = oplog[k].tgt
                                  /\ oplog[m].op = oplog[k].op
    /\ Phase5Returned =>
          \A n \in DOMAIN oscChanges.units.changed :
              \E k \in Idx : /\ IsCommand(oplog[k])
                              /\ oplog[k].tgt = oscChanges.units.changed[n].Name

\* phase 5 returned after a Stop for a disabled unit and a Restart for a
\* unit whose enablement is unset
C10_Witness ==
    /\ Phase5Returned
    /\ \E n \in DOMAIN osc.Units :
          /\ osc.Units[n].Enable = << FALSE >> /\ osc.Units[n].Command = Nil
          /\ Has(5, {"Stop"}, osc.Units[n].Name, {"ok"})
    /\ \E n \in DOMAIN osc.Units :
          /\ osc.Units[n].Enable = Nil
          /\ Has(5, {"Restart"}, osc.Units[n].Name, {"ok"})

(***************************************************************************)
(* C11: phase 5 runs one task per changed unit and returns only when all   *)
(* of them have returned: whatever the interleaving and whichever commands *)
(* fail, every changed unit's command has been issued and has returned     *)
(* when the phase returns, the phase fails exactly when a command failed,  *)
(* and a task that has not issued its command can always do so, also after *)
(* a command of another unit failed.                                       *)
(***************************************************************************)
IsReturn(e) == e.ph = 5 /\ e.res \in {"ok", "err"}

C11_FanOutJoinsAll ==
    /\ Phase5Returned =>
          /\ \A n \in DOMAIN oscChanges.units.changed :
                \E k \in Idx :
                    /\ IsCommand(oplog[k])
                    /\ oplog[k].tgt = oscChanges.units.changed[n].Name
                    /\ \E m \in Idx : /\ m > k /\ IsReturn(oplog[m])
                                      /\ oplog[m].tgt = oplog[k].tgt
          /\ (pc = "done" /\ result.at = "commands" /\ result.err) <=> Failed(5)
    /\ \A k \in Idx : oplog[k].ph > 5 =>
          \A m \in Idx : oplog[m].ph = 5 => m < k /\ oplog[m].res # "err"
    /\ pc = "Parallel" =>
          \A k \in DOMAIN tasks : tasks[k] = "ready" => ENABLED TaskCall(k)

\* the phase returned after the command of one unit failed and the command
\* of another unit was issued after that failure and succeeded
C11_Witness ==
    /\ Phase5Returned
    /\ \E k \in Idx :
          /\ oplog[k].ph = 5 /\ oplog[k].res = "err"
          /\ \E m \in Idx : /\ m > k /\ IsCommand(oplog[m])
                            /\ \E r \in Idx : /\ r > m /\ oplog[r].ph = 5
                                              /\ oplog[r].res = "ok"
                                              /\ oplog[r].tgt = oplog[m].tgt

(***************************************************************************)
(* C12: the removal of a deleted file, of a deleted drop-in, or of the     *)
(* unit file or drop-in directory of a deleted unit finds its target       *)
(* absent without failing: the pass goes on, and if it returns an error    *)
(* then a later call failed.                                               *)
(***************************************************************************)
\* a removal of phase 2, 3 or 6 whose target was absent, and that did not
\* fail for another reason
AbsentRemoval(e) ==
    /\ e.ph \in {2, 3, 6}
    /\ e.op \in {"Remove", "RemoveAll"}
    /\ start.fs[e.tgt].kind = "none"
    /\ e.res # "err"

C13_DropInDirectoryRemoved ==
    \A n \in DOMAIN oscChanges.units.changed :
        LET u == oscChanges.units.changed[n]
            dir == DropInDirectory(u.Name)
        IN  IF u.DropIns = << >>
            THEN Has(2, {"Enable", "Disable"}, u.Name, {"ok", "err"}) =>
                    /\ Has(2, {"RemoveAll"}, dir, {"ok"})
                    /\ fs[dir].kind = "none"
                    /\ \A p \in Below(dir) : fs[p].kind = "none"
            ELSE ~ Has(2, {"RemoveAll"}, dir, {"ok", "err"})

\* a unit that had a drop-in and wants none was enabled, its directory gone
C13_Witness ==
    \E n \in DOMAIN oscChanges.units.changed :
        LET u == oscChanges.units.changed[n]
            dir == DropInDirectory(u.Name)
        IN  /\ u.DropIns = << >>
            /\ start.fs[dir].kind = "dir"
            /\ \E p \in Below(dir) : start.fs[p].kind = "file"
            /\ Has(2, {"Enable", "Disable"}, u.Name, {"ok"})
            /\ fs[dir].kind = "none"

(***************************************************************************)
(* C14: a pass whose Get of the secret answers not found ends at once with *)
(* success and no requeue; a pass whose Get fails otherwise ends at once   *)
(* with an error; neither makes another call, and both leave the           *)
(* filesystem, the last-applied file and the Node as they were.            *)
(***************************************************************************)
FetchFailed == oplog # << >> /\ oplog[1].res # "ok"

C14_FetchDesiredOutcomes ==
    /\ oplog # << >> => oplog[1] = [ph |-> 0, op |-> "Get", tgt |-> "secret",
                                    res |-> oplog[1].res]
    /\ FetchFailed =>
          /\ pc = "done"
          /\ Len(oplog) = 1
          /\ fs = start.fs
          /\ nodeObj.checksum = start.nodeObj.checksum
          /\ result.RequeueAfter = 0
          /\ result.err <=> oplog[1].res = "err"
          /\ oplog[1].res \in {"notfound", "err"}
    /\ pc = "done" /\ result.at \in {"gone", "getSecret"} => FetchFailed

\* a pass found the secret gone after an earlier pass had applied a
\* configuration
C14_Witness ==
    /\ FetchFailed
    /\ oplog[1].res = "notfound"
    /\ fs[lastAppliedOperatingSystemConfigFilePath].kind = "file"

(***************************************************************************)
(* C15: a pass that found no Node object and whose six phases and write of *)
(* the last-applied file succeeded returns no error and a requeue after 5  *)
(* seconds; the last-applied file holds the configuration, no Patch was    *)
(* sent and the annotation is as it was.  No other pass requeues after 5   *)
(* seconds.                                                                *)
(***************************************************************************)
NodeNotFound == Has(0, {"Get"}, "node", {"notfound"})

C15_NoNodeShortRetry ==
    /\ pc = "done" /\ NodeNotFound /\ PhasesSucceeded /\ LastAppliedWritten =>
          /\ ~ result.err
          /\ result.RequeueAfter = 5
          /\ fs[lastAppliedOperatingSystemConfigFilePath] = FileEntry(osc.raw, Perm0644)
          /\ \A k \in Idx : oplog[k].op # "Patch"
          /\ nodeObj.checksum = start.nodeObj.checksum
    /\ pc = "done" /\ result.RequeueAfter = 5 =>
          NodeNotFound /\ PhasesSucceeded /\ LastAppliedWritten

\* such a pass ended while the kubelet registered the Node in the meantime
C15_Witness ==
    /\ pc = "done" /\ NodeNotFound /\ PhasesSucceeded /\ LastAppliedWritten
    /\ oscChanges # NoChanges
    /\ nodeObj.exists

(***************************************************************************)
(* C16 as claimed: if the configuration stays the same, requeues are       *)
(* honoured, the Node eventually exists for good and the calls eventually  *)
(* stop failing, then eventually the annotation of the Node is the         *)
(* checksum of the configuration.  Refuted by a configuration with an      *)
(* undecodable file: every pass returns the error of the change            *)
(* computation and changes nothing.                                        *)
(***************************************************************************)
\* no call of the current pass failed, and the secret was there and held a
\* configuration
NoFailure ==
    /\ \A k \in Idx : oplog[k].res # "err"
    /\ ~ FetchFailed
    /\ ~ (pc = "done" /\ result.at = "extract")

Annotated(d) == nodeObj.exists /\ nodeObj.checksum = d.checksum

\* the passes of the model are used up, and the last one ended in another
\* state than it began in, so that one more pass need not repeat it
PassesExhausted ==
    /\ passes = MaxPasses
    /\ pc = "done"
    /\ fs # start.fs \/ nodeObj # start.nodeObj

Converges(d) ==
    ([](osc \in {NoOSC, d}) /\ <>[]nodeObj.exists /\ <>[]NoFailure)
        => <>(Annotated(d) \/ PassesExhausted)

Decodable(d) ==
    \A k \in DOMAIN d.Files :
        d.Files[k].Inline # Nil =>
            Decode(d.Files[k].Inline[1].Encoding, d.Files[k].Inline[1].Data).ok

FatalStep ==
    \/ \E k \in Idx : oplog[k].res = "err" /\ ~ IsCleanup(oplog[k])
    \/ pc = "done" /\ result.at \in {"extract", "compute"}

FatalStepReturnsError == pc = "done" => (result.err <=> FatalStep)

C17_AsClaimed ==
    /\ FatalStepReturnsError
    /\ pc = "done" /\ ~ result.err /\ result.at \in {"upToDate", "patched"} =>
          result.RequeueAfter = SyncPeriod

(***************************************************************************)
(* C17, amended: a pass that applied the configuration and patched the     *)
(* Node returns success and a requeue after the sync period, and only such *)
(* a pass asks for that delay with success; a pass that finds the Node up  *)
(* to date returns success without a requeue delay; a pass with a failed   *)
(* step returns an error, and no other pass does.                          *)
(***************************************************************************)
C17_RequeueAfterSyncPeriod ==
    /\ FatalStepReturnsError
    /\ pc = "done" /\ ~ result.err =>
          /\ result.at = "patched" =>
                /\ result.RequeueAfter = SyncPeriod
                /\ PhasesSucceeded /\ LastAppliedWritten
                /\ Has(7, {"Patch"}, "node", {"ok"})
          /\ result.at = "upToDate" => result.RequeueAfter = 0 /\ ~ ApplyRan
          /\ result.RequeueAfter = SyncPeriod => result.at = "patched"
          /\ result.at \in {"gone", "upToDate", "nodeNil", "patched"}

\* a pass found the Node up to date after the pass before had patched it
C17_Witness ==
    /\ pc = "done" /\ result.at = "upToDate"
    /\ prev = osc.raw
    /\ result.RequeueAfter = 0

(***************************************************************************)
(* C18: a pass for a configuration with a file whose content cannot be     *)
(* decoded returns an error and makes no call of any phase: no file is     *)
(* written or renamed, no unit is written, no service-manager call is      *)
(* made, and the filesystem and the annotation stay as they were, wherever *)
(* the file stands among the files.                                        *)
(***************************************************************************)
C18_MalformedInputNoPartialApply ==
    osc # NoOSC /\ ~ Decodable(osc) =>
        /\ \A k \in Idx : oplog[k].ph = 0
        /\ fs = start.fs
        /\ nodeObj.checksum = start.nodeObj.checksum
        /\ pc \in {"GetNode", "ExtractOSC", "Compute", "done"}
        /\ pc = "done" => result.err /\ result.at \in {"getNode", "extract", "compute"}

\* the change computation failed on the second file, the first file being a
\* decodable file that differs from the disk
C18_Witness ==
    /\ pc = "done" /\ result.at = "compute"
    /\ Len(osc.Files) = 2
    /\ fileChanged(fs, osc.Files[1])
    /\ ~ Decode(osc.Files[2].Inline[1].Encoding, osc.Files[2].Inline[1].Data).ok
    /\ ReadFile(fs, lastAppliedOperatingSystemConfigFilePath).res = "ok"
    /\ \A k \in Idx : oplog[k].res # "err"

(***************************************************************************)
(* C19: a pass that runs the apply phases without a failing call, in       *)
(* whatever state earlier passes that failed have left the disk, ends with *)
(* every desired file, unit file and drop-in holding its desired content,  *)
(* with every file, unit and drop-in that the last-applied configuration   *)
(* had and the desired one has not absent, with the last-applied file      *)
(* holding the configuration and, when the Node was found, with its        *)
(* annotation set to the checksum.                                         *)
(***************************************************************************)
\* the pass ran the phases to the end and none of its calls failed
CleanPass ==
    /\ pc = "done"
    /\ result.at \in {"nodeNil", "patched"}
    /\ \A k \in Idx : oplog[k].res # "err"

\* the configuration the last-applied file held when the pass started
LastAppliedAtStart ==
    IF start.fs[lastAppliedOperatingSystemConfigFilePath].kind = "file"
    THEN DecodeOSC(start.fs[lastAppliedOperatingSystemConfigFilePath].data)
    ELSE NoOSC

DesiredInPlace ==
    /\ \A k \in DOMAIN osc.Files :
          osc.Files[k].Inline # Nil =>
              fs[osc.Files[k].Path]
                  = FileEntry(Decode(osc.Files[k].Inline[1].Encoding,
                                     osc.Files[k].Inline[1].Data).data,
                              Deref(osc.Files[k].Permissions, 384))
    /\ \A k \in DOMAIN osc.Units :
          /\ osc.Units[k].Content # Nil =>
                fs[UnitFilePath(osc.Units[k].Name)] = FileEntry(osc.Units[k].Content[1], 384)
          /\ \A n \in DOMAIN osc.Units[k].DropIns :
                fs[DropInFilePath(osc.Units[k].Name, osc.Units[k].DropIns[n].Name)]
                    = FileEntry(osc.Units[k].DropIns[n].Content, 384)

DeletedAbsent ==
    LET old == LastAppliedAtStart
    IN  /\ \A k \in DOMAIN old.Files :
              old.Files[k].Path \notin Paths(osc.Files) =>
                  fs[old.Files[k].Path].kind = "none"
        /\ \A k \in DOMAIN old.Units :
              IF old.Units[k].Name \notin Names(osc.Units)
              THEN /\ fs[UnitFilePath(old.Units[k].Name)].kind = "none"
                   /\ fs[DropInDirectory(old.Units[k].Name)].kind = "none"
              ELSE \A n \in DOMAIN old.Units[k].DropIns :
                      (\A u \in SeqToSet(osc.Units) :
                          u.Name = old.Units[k].Name =>
                              old.Units[k].DropIns[n].Name \notin Names(u.DropIns))
                      => fs[DropInFilePath(old.Units[k].Name,
                                           old.Units[k].DropIns[n].Name)].kind = "none"

C19_CleanPassRepairs ==
    CleanPass =>
        /\ DesiredInPlace
        /\ DeletedAbsent
        /\ fs[lastAppliedOperatingSystemConfigFilePath] = FileEntry(osc.raw, 420)
        /\ result.at = "patched" => nodeObj.checksum = osc.checksum

\* a clean pass completed what a failed pass for the configuration had begun:
\* no last-applied file at its start, a desired unit file already in place,
\* a desired drop-in still missing
C19_Witness ==
    /\ CleanPass
    /\ start.fs[lastAppliedOperatingSystemConfigFilePath].kind = "none"
    /\ \E k \in DOMAIN osc.Units :
          /\ osc.Units[k].Content # Nil
          /\ start.fs[UnitFilePath(osc.Units[k].Name)].kind = "file"
          /\ start.fs[UnitFilePath(osc.Units[k].Name)].data = osc.Units[k].Content[1]
          /\ \E n \in DOMAIN osc.Units[k].DropIns :
                start.fs[DropInFilePath(osc.Units[k].Name,
                                        osc.Units[k].DropIns[n].Name)].kind = "none"

(***************************************************************************)
(* C20: phase 2 makes for every changed unit one enablement call and no    *)
(* second: Enable when the enabled flag of the unit is true or unset,      *)
(* Disable when it is false; the call comes after every read, write and    *)
(* removal of the unit file and drop-ins of that unit and after the        *)
(* enablement of the units before it; after a failed call of the phase     *)
(* there is no enablement call, for that unit or a later one.              *)
(***************************************************************************)
IsEnablement(e) == e.ph = 2 /\ e.op \in {"Enable", "Disable"}

ExpectedEnablement(u) == IF u.Enable = << FALSE >> THEN "Disable" ELSE "Enable"

\* the paths of phase 2 that belong to a unit
UnitPathsOf(name) ==
    {UnitFilePath(name), DropInDirectory(name)} \cup Below(DropInDirectory(name))

Phase2Returned == \E k \in Idx : oplog[k].ph > 2

C20_OneEnablementPerChangedUnit ==
    LET changed == oscChanges.units.changed
    IN  /\ \A k \in Idx : IsEnablement(oplog[k]) =>
              /\ \E n \in DOMAIN changed :
                    /\ changed[n].Name = oplog[k].tgt
                    /\ \A m \in 1..(n - 1) :
                          \E r \in 1..(k - 1) : /\ IsEnablement(oplog[r])
                                                /\ oplog[r].tgt = changed[m].Name
                                                /\ oplog[r].res = "ok"
              /\ \E n \in DOMAIN osc.Units :
                    /\ osc.Units[n].Name = oplog[k].tgt
                    /\ oplog[k].op = ExpectedEnablement(osc.Units[n])
              /\ LET paths == UnitPathsOf(oplog[k].tgt)
                 IN  \A m \in Idx :
                        /\ m # k /\ IsEnablement(oplog[m]) => oplog[m].tgt # oplog[k].tgt
                        /\ m > k /\ oplog[m].ph = 2 => oplog[m].tgt \notin paths
                        /\ m < k /\ oplog[m].ph = 2 => oplog[m].res # "err"
        /\ Phase2Returned =>
              \A n \in DOMAIN changed :
                  \E k \in Idx : /\ IsEnablement(oplog[k])
                                 /\ oplog[k].tgt = changed[n].Name
                                 /\ oplog[k].res = "ok"

\* phase 2 enabled a unit with the flag unset after writing its unit file
\* and its drop-in, and disabled a unit with the flag false
C20_Witness ==
    /\ Phase2Returned
    /\ \E k \in Idx :
          /\ oplog[k].ph = 2 /\ oplog[k].op = "Enable" /\ oplog[k].res = "ok"
          /\ \E n \in DOMAIN osc.Units :
                osc.Units[n].Name = oplog[k].tgt /\ osc.Units[n].Enable = Nil
          /\ \E m \in 1..(k - 1) :
                /\ oplog[m].op = "WriteFile"
                /\ oplog[m].tgt \in Below(DropInDirectory(oplog[k].tgt))
    /\ \E k \in Idx : oplog[k].ph = 2 /\ oplog[k].op = "Disable" /\ oplog[k].res = "ok"

(***************************************************************************)
(* The files phase 2 keeps: the unit file of each changed unit that has    *)
(* content, and each of its changed drop-ins, with the desired content.    *)
(***************************************************************************)
Phase2Targets ==
    LET changed == oscChanges.units.changed
    IN  {[path |-> UnitFilePath(changed[n].Name), content |-> changed[n].Content[1]] :
            n \in {m \in DOMAIN changed : changed[m].Content # Nil}}
        \cup UNION {{[path |-> DropInFilePath(changed[n].Name,
                                              changed[n].dropIns.changed[d].Name),
                      content |-> changed[n].dropIns.changed[d].Content] :
                        d \in DOMAIN changed[n].dropIns.changed} : n \in DOMAIN changed}

\* the content on the disk differs from the desired one; an absent file
\* counts as different
Differs(f, t) == f[t.path].kind # "file" \/ f[t.path].data # t.content

\* the call after the successful read of a target writes the target
WrittenAfterRead(k, t) ==
    /\ oplog[k + 1].ph = 2
    /\ oplog[k + 1].op = "WriteFile"
    /\ oplog[k + 1].tgt = t.path

\* a successful read of a target in phase 2 that a further call followed
ReadOf(k, t) ==
    /\ oplog[k].ph = 2 /\ oplog[k].op = "ReadFile" /\ oplog[k].tgt = t.path
    /\ oplog[k].res # "err"
    /\ k < Len(oplog)

(***************************************************************************)
(* C21 as claimed: phase 2 writes the unit file of a changed unit with     *)
(* content, and each changed drop-in, exactly when the desired content     *)
(* differs from the content on the disk, an absent file counting as        *)
(* different; it then resets the permissions to 0600 whether or not it     *)
(* wrote; once phase 2 has succeeded, content and permissions on the disk  *)
(* are the desired content and 0600.  Refuted by the code: an absent file  *)
(* whose desired content is empty is not written, and the reset fails.     *)
(***************************************************************************)
C21_AsClaimed ==
    \A t \in Phase2Targets :
        /\ \A k \in Idx : ReadOf(k, t) =>
              /\ WrittenAfterRead(k, t) <=> Differs(start.fs, t)
              /\ ~ WrittenAfterRead(k, t) =>
                    oplog[k + 1] \in {Call(2, "Chmod", t.path, res) : res \in {"ok", "err"}}
        /\ \A k \in Idx :
              oplog[k] = Call(2, "WriteFile", t.path, "ok") /\ k < Len(oplog) =>
                  oplog[k + 1] \in {Call(2, "Chmod", t.path, res) : res \in {"ok", "err"}}
        /\ Has(2, {"Chmod"}, t.path, {"ok"}) => fs[t.path].perm = defaultFilePermissions
        /\ PhaseDone(2) => fs[t.path] = FileEntry(t.content, defaultFilePermissions)

\* the empty unit file of a changed unit was absent, phase 2 did not write
\* it, and the reset of its permissions failed
C21_Witness ==
    \E t \in Phase2Targets :
        /\ t.content = ""
        /\ start.fs[t.path].kind = "none"
        /\ \E k \in Idx : /\ ReadOf(k, t)
                          /\ oplog[k].res = "notfound"
                          /\ oplog[k + 1] = Call(2, "Chmod", t.path, "err")
        /\ fs[t.path].kind = "none"
        /\ pc = "done" /\ result.err

(***************************************************************************)
(* C22: phase 2 does not touch the unit file of a changed unit without     *)
(* content: no call of the pass reads, writes, creates, removes or changes *)
(* the mode of the unit file, which stays as it was when the pass started; *)
(* the calls of phase 2 for the unit are those on its drop-in directory    *)
(* and drop-ins and its enablement, all made once the phase has succeeded. *)
(***************************************************************************)
WithoutContent == {u \in ChangedUnits : u.Content = Nil}

C22_UnitFileUntouched ==
    \A u \in WithoutContent :
        /\ \A k \in Idx : oplog[k].tgt # UnitFilePath(u.Name)
        /\ fs[UnitFilePath(u.Name)] = start.fs[UnitFilePath(u.Name)]
        /\ \A k \in Idx :
              oplog[k].ph = 2 /\ oplog[k].tgt \in UnitPathsOf(u.Name) \cup {u.Name} =>
                  \/ oplog[k].tgt = DropInDirectory(u.Name)
                        /\ oplog[k].op \in {"MkdirAll", "RemoveAll"}
                  \/ oplog[k].tgt \in Below(DropInDirectory(u.Name))
                        /\ oplog[k].op \in {"ReadFile", "WriteFile", "Chmod", "Remove"}
                  \/ oplog[k].tgt = u.Name /\ IsEnablement(oplog[k])
        /\ PhaseDone(2) =>
              /\ Has(2, {"MkdirAll", "RemoveAll"}, DropInDirectory(u.Name), {"ok"})
              /\ Has(2, {"Enable", "Disable"}, u.Name, {"ok"})

\* a unit without content whose unit file was installed before had a drop-in
\* written and was enabled
C22_Witness ==
    \E u \in WithoutContent :
        /\ start.fs[UnitFilePath(u.Name)].kind = "file"
        /\ \E k \in Idx : /\ oplog[k].ph = 2 /\ oplog[k].op = "WriteFile"
                          /\ oplog[k].res = "ok"
                          /\ oplog[k].tgt \in Below(DropInDirectory(u.Name))
        /\ Has(2, {"Enable"}, u.Name, {"ok"})

(***************************************************************************)
(* C23: phase 1 installs a changed file by writing the decoded content to  *)
(* a file in the scratch directory and renaming that file to the final     *)
(* path: no call writes to the final path, a Rename directly follows the   *)
(* successful write of the temporary file, and in every state of the pass  *)
(* the final path is as it was when the pass started until the Rename has  *)
(* succeeded and from then on holds the decoded content with the           *)
(* permissions of the file, 0600 when it gives none.                       *)
(***************************************************************************)
InstalledFiles == {f \in ChangedFiles : f.Inline # Nil}

Installed(f) ==
    FileEntry(Decode(f.Inline[1].Encoding, f.Inline[1].Data).data,
              IF f.Permissions = Nil THEN defaultFilePermissions ELSE f.Permissions[1])

C23_AtomicInstall ==
    /\ \A f \in InstalledFiles :
          /\ fs[f.Path] = IF Has(1, {"Rename"}, f.Path, {"ok"})
                          THEN Installed(f)
                          ELSE start.fs[f.Path]
          /\ \A k \in Idx :
                /\ oplog[k].op = "WriteFile" => oplog[k].tgt # f.Path
                /\ oplog[k].op = "Rename" /\ oplog[k].tgt = f.Path =>
                      /\ k > 1
                      /\ oplog[k - 1] = Call(1, "WriteFile", TmpFilePath(tmpDir, f.Path), "ok")
                      /\ \A m \in Idx : oplog[m] = oplog[k] => m = k
    /\ \A k \in Idx : oplog[k].ph = 1 /\ oplog[k].op = "WriteFile" =>
          /\ tmpDir \in TempDirs
          /\ oplog[k].tgt \in Below(tmpDir)
          /\ start.fs[tmpDir].kind = "none"

\* the pass replaced a file that was installed with another content and
\* other permissions
C23_Witness ==
    \E f \in InstalledFiles :
        /\ start.fs[f.Path].kind = "file"
        /\ start.fs[f.Path].data # Installed(f).data
        /\ start.fs[f.Path].perm # Installed(f).perm
        /\ fs[f.Path] = Installed(f)
        /\ pc = "FilesLoop"

(***************************************************************************)
(* C24: in every state of a pass, every path outside the managed set of    *)
(* the pass is as it was when the pass started.  The managed set holds the *)
(* paths of the changed and deleted files and their parent directories,    *)
(* the unit files and the drop-in directories (with the drop-ins in them)  *)
(* of the changed and deleted units, the scratch directory of the pass     *)
(* with the files in it, and the last-applied file.                        *)
(***************************************************************************)
ManagedPaths ==
    LET files == ChangedFiles \cup DeletedFiles
        units == Names(oscChanges.units.changed) \cup Names(oscChanges.units.deleted)
    IN  {f.Path : f \in files}
        \cup {Dir(f.Path) : f \in files}
        \cup {UnitFilePath(n) : n \in units}
        \cup {DropInDirectory(n) : n \in units}
        \cup UNION {Below(DropInDirectory(n)) : n \in units}
        \cup (IF tmpDir = "" THEN {} ELSE {tmpDir} \cup Below(tmpDir))
        \cup {lastAppliedOperatingSystemConfigFilePath}

C24_UnmanagedPathsUnchanged ==
    LET managed == ManagedPaths
    IN  /\ \A p \in AllPaths : fs[p] # start.fs[p] => p \in managed
        /\ \A k \in Idx : oplog[k].tgt \in AllPaths /\ oplog[k].res # "err" =>
              oplog[k].tgt \in managed

\* a pass ran all six phases next to a file and a scratch directory that
\* earlier passes left behind and that are not managed in this pass
C24_Witness ==
    /\ PhasesSucceeded
    /\ fs # start.fs
    /\ \E p \in FilePaths \ ManagedPaths : start.fs[p].kind = "file"
    /\ \E d \in TempDirs \ ManagedPaths : start.fs[d].kind = "dir"

(***************************************************************************)
(* C25: once phase 1 has returned with a scratch directory created, the    *)
(* removal of the scratch directory has been called, once and as the last  *)
(* call of the phase, whether the phase succeeded or failed at a file;     *)
(* when the removal succeeded, the scratch directory and every temporary   *)
(* file in it are gone for the rest of the pass; when it failed, the phase *)
(* fails only if a call before it failed, so a pass can still succeed.     *)
(***************************************************************************)
Phase1Labels ==
    {"TempDir", "FilesLoop", "FileMkdirAll", "FileDecode", "FileWriteTmp", "FileRename",
     "RemoveAllTmp"}

Phase1Returned == ApplyRan /\ pc \notin Phase1Labels

ScratchCreated == Has(1, {"TempDir"}, tmpDir, {"ok"})

C25_ScratchRemovedOnExit ==
    /\ Phase1Returned /\ ScratchCreated =>
          \E k \in Idx :
              /\ oplog[k] \in {Call(1, "RemoveAll", tmpDir, res) : res \in {"ok", "err"}}
              /\ \A m \in Idx : /\ IsCleanup(oplog[m]) => m = k
                                /\ oplog[m].ph = 1 => m <= k
              /\ oplog[k].res = "ok" =>
                    \A p \in {tmpDir} \cup Below(tmpDir) : fs[p].kind = "none"
              /\ pc = "done" /\ result.at = "files" => Failed(1)
              /\ ~ Failed(1) => ~ (pc = "done" /\ result.at = "files")
    /\ Phase1Returned /\ ~ ScratchCreated =>
          /\ \A p \in TmpPaths \cup TempDirs : fs[p] = start.fs[p]
          /\ pc = "done" /\ result.at = "files"
    /\ \A k \in Idx : IsCleanup(oplog[k]) => ScratchCreated /\ oplog[k].tgt = tmpDir

\* the rename of a temporary file failed, and the cleanup removed the file
\* and the scratch directory before the pass returned the error
C25_Witness ==
    /\ pc = "done"
    /\ result.at = "files"
    /\ \E p \in Below(tmpDir) : Has(1, {"WriteFile"}, p, {"ok"})
    /\ \E f \in ChangedFiles : Has(1, {"Rename"}, f.Path, {"err"})
    /\ Has(1, {"RemoveAll"}, tmpDir, {"ok"})
    /\ \A p \in {tmpDir} \cup Below(tmpDir) : fs[p].kind = "none"

(***************************************************************************)
(* C26: applyChangedFiles skips a file without inline content and goes on  *)
(* with the files after it: no call is made for the file, its path and,    *)
(* unless a file with content shares it, its parent directory stay as they *)
(* were; the phase fails only when a call failed, and when it returns      *)
(* without a failed call every file with content has been installed.       *)
(***************************************************************************)
Payloadless == {f \in ChangedFiles : f.Inline = Nil}

C26_PayloadlessSkipped ==
    /\ \A f \in Payloadless :
          /\ \A k \in Idx :
                oplog[k].tgt \notin {f.Path, TmpFilePath(TempDirName(passes), f.Path)}
          /\ fs[f.Path] = start.fs[f.Path]
          /\ (\A g \in InstalledFiles : Dir(g.Path) # Dir(f.Path)) =>
                /\ fs[Dir(f.Path)] = start.fs[Dir(f.Path)]
                /\ \A k \in Idx : oplog[k].tgt # Dir(f.Path)
    /\ pc = "done" /\ result.at = "files" => Failed(1)
    /\ ApplyRan /\ pc \notin Phase1Labels /\ ~ Failed(1) =>
          \A g \in InstalledFiles : /\ Has(1, {"Rename"}, g.Path, {"ok"})
                                    /\ fs[g.Path] = Installed(g)

\* the phase returned without error after skipping a first file without
\* inline content and installing the file after it
C26_Witness ==
    /\ pc = "UnitsLoop"
    /\ Len(oscChanges.files.changed) = 2
    /\ oscChanges.files.changed[1].Inline = Nil
    /\ fs[oscChanges.files.changed[1].Path].kind = "none"
    /\ fs[Dir(oscChanges.files.changed[1].Path)].kind = "none"
    /\ oscChanges.files.changed[2].Inline # Nil
    /\ fs[oscChanges.files.changed[2].Path] = Installed(oscChanges.files.changed[2])

(***************************************************************************)
(* C27: a pass whose Patch of the Node failed ran all six phases           *)
(* successfully and returns the error; the last-applied file it wrote      *)
(* holds the configuration of the pass, and the annotation is the one the  *)
(* pass started with, which is not the checksum of the configuration.  The *)
(* next pass, when it is for the same configuration, is not ended by the   *)
(* gate: it goes on to the apply phases.                                   *)
(***************************************************************************)
PatchFailed == pc = "done" /\ result.at = "patched" /\ result.err

AfterFailedPatch ==
    PatchFailed =>
        /\ PhasesSucceeded
        /\ LastAppliedWritten
        /\ fs[lastAppliedOperatingSystemConfigFilePath] = FileEntry(osc.raw, Perm0644)
        /\ nodeObj = start.nodeObj
        /\ nodeObj.checksum # osc.checksum

NotSkipped(d, n) ==
    passes = n + 1 /\ osc = d =>
        /\ ~ (pc = "done" /\ result.at = "upToDate")
        /\ pc # "Gate" \/ ENABLED (Gate /\ pc' = "TempDir")

C27_FailedPatchIsRetried ==
    /\ [] AfterFailedPatch
    /\ \A d \in OSCs : \A n \in 1..MaxPasses :
          [] (PatchFailed /\ osc = d /\ passes = n => [] NotSkipped(d, n))

\* the pass after a failed Patch is for the same configuration, finds the
\* last-applied file of that configuration and nothing to change, runs the
\* phases again and sets the annotation
C27_Witness ==
    /\ passes = 2
    /\ prev = ""
    /\ start.nodeObj.exists
    /\ start.fs[lastAppliedOperatingSystemConfigFilePath] = FileEntry(osc.raw, Perm0644)
    /\ oscChanges = NoChanges
    /\ PhasesSucceeded
    /\ result.at = "patched" /\ ~ result.err
    /\ nodeObj.checksum = osc.checksum

====
